---- MODULE Spec2Model ----
(***************************************************************************)
(* GameHub server: reviews, favorites and the per-game rating aggregate.   *)
(*                                                                         *)
(* The datastore (MongoDB through Mongoose) is modelled as four            *)
(* collections.  Every request is a process that walks through its         *)
(* handler one datastore call at a time: each action performs one awaited  *)
(* datastore call atomically, together with the synchronous code that      *)
(* follows it up to the next await.                                        *)
(*                                                                         *)
(* averageRating is stored in hundredths (4.33 is 433).                    *)
(***************************************************************************)
EXTENDS Integers, Sequences, FiniteSets, TLC

(* ---------------------------- bounds ----------------------------------- *)
NumUsers == 3
NumGames == 2
NumProcs == 2
MaxIds == 3
MaxRequests == 2
MaxSeqRequests == 3
NumReviewers == 4
MaxModRequests == 2
MaxPage == 4
NumPagesBelowOne == 2
MaxCatalogRequests == 4
MaxRoleRequests == 3
MaxTicks == 4
MaxCalls == 3

Users == 1..NumUsers
Games == 1..NumGames
Procs == 1..NumProcs
Ids == 1..MaxIds

\* game ids a request may name: 0 is a well-formed id of no game
GameIds == 0..NumGames

\* the identities of a datastore that already holds one review each for game 1,
\* and the review ids a request may name (the last one is stored nowhere)
Reviewers == 1..NumReviewers
ReviewIds == 1..(NumReviewers + 1)

\* the ratings of the reviews stored at the start
InitRatings == {4, 5}

(* ------------------------- program constants --------------------------- *)
MinRating == 1
MaxRating == 5
MinContentLen == 1
MaxContentLen == 1000
MaxLimit == 100
UsersPerPage == 20
DefaultMaxRequests == 100
DefaultWindowMs == 900000
CleanupWindowMs == 900000
CleanupIntervalMs == 300000
MinUsernameLen == 3
MaxUsernameLen == 20

(* ------------------------------ inputs --------------------------------- *)
\* request bodies of POST/PUT /api/reviews: rating and content (a sequence
\* of characters); the last one carries an out-of-range rating
Bodies ==
  { [rating |-> 5, content |-> <<"a">>],
    [rating |-> 3, content |-> <<"b", " ">>],
    [rating |-> 6, content |-> <<"c", " ">>] }

\* catalog queries: the category filter (none, or a fragment of a genre), the
\* sort key, the page (any integer, zero and negative ones included) and the
\* page size (one, all games, over the maximum)
Categories == {<<>>, <<"m", "m">>}
\* the last sort key is one the service does not know
SortKeys == {"release-date", "alphabetical", "rating", "relevance", "popularity"}
Pages == (1 - NumPagesBelowOne)..MaxPage
PageSizes == {1, NumGames, MaxLimit + 1}

\* request bodies of the admin game routes: a new title, an empty title, and
\* a body that also names the two rating fields (in hundredths, and a count)
GameBodies ==
  {[title |-> "Chess"],
   [title |-> ""],
   [title |-> "Apex", averageRating |-> 100, totalReviews |-> MaxIds + 1]}

\* the role a role update may ask for; the last one is no role of the schema
RequestedRoles == {"user", "admin", "superadmin", "owner"}

\* request bodies validateReview rejects: a rating below and above the range,
\* content that is blank, and content one character over the limit
InvalidBodies ==
  {[rating |-> 0, content |-> <<"a">>],
   [rating |-> 6, content |-> <<"a">>],
   [rating |-> 5, content |-> <<" ">>],
   [rating |-> 4, content |-> [i \in 1..(MaxContentLen + 1) |-> "x"]]}

\* usernames a request may carry (sequences of characters): two that differ
\* in letter case only, one that is too short, one with a dot
Handles ==
  {<<"A", "b", "b">>, <<"a", "b", "b">>, <<"a", "b">>, <<"a", ".", "b">>}

\* username: null
NoUsername == <<>>

NoBody == [rating |-> 0, content |-> <<>>]

VARIABLES
  users,      \* User collection: [Users -> [exists, role, avatar, username]]
  games,      \* Game collection: [Games -> [exists, title, averageRating, totalReviews]]
  reviews,    \* Review collection: set of [id, userId, gameId, rating, content]
  favorites,  \* Favorite collection: set of [id, userId, gameId]
  nextId,     \* next ObjectId handed out for an inserted document
  pc,         \* [Procs -> position of the request in its handler]
  req,        \* [Procs -> the request being handled]
  loc,        \* [Procs -> the handler's local variables]
  resp,       \* [Procs -> the response sent for the last request]
  snap,       \* the request and the datastore when a non-overlapping request began
  started,    \* number of overlapping requests received so far
  limiter     \* the rate limiter: its map, its clock, its callers' parameters
              \* and the calls made so far with what they returned

vars == <<users, games, reviews, favorites, nextId, pc, req, loc, resp, snap, started,
          limiter>>

(* ------------------------------ messages ------------------------------- *)
\* messages are sequences of words, so that String.includes can be computed
Includes(msg, pat) ==
  \E i \in 1..(Len(msg) - Len(pat) + 1) : SubSeq(msg, i, i + Len(pat) - 1) = pat

MsgGameNotFound == <<"Game", "not", "found">>
MsgValidationFailed == <<"Validation", "failed">>
MsgReviewCreated == <<"Review", "created", "successfully">>
MsgReviewUpdated == <<"Review", "updated", "successfully">>
MsgReviewDeleted == <<"Review", "deleted", "successfully">>
MsgAlreadyHaveReview == <<"You", "already", "have", "a", "review", "for", "this", "game">>
MsgNotFoundOrUnauthorizedUpdate ==
  <<"Review", "not", "found", "or", "you", "are", "not", "authorized", "to", "update", "it">>
MsgNotFoundOrUnauthorizedDelete ==
  <<"Review", "not", "found", "or", "you", "are", "not", "authorized", "to", "delete", "it">>
MsgFailedToUpdateReview == <<"Failed", "to", "update", "review">>
MsgFailedToDeleteReview == <<"Failed", "to", "delete", "review">>
MsgDuplicateKey == <<"E11000", "duplicate", "key", "error">>
MsgDocumentNotFound == <<"No", "document", "found", "for", "query">>
MsgUserNotFound == <<"User", "not", "found">>
MsgUsernameTaken == <<"Username", "is", "already", "taken">>
MsgProfileUpdated == <<"Profile", "updated", "successfully">>
MsgProfileUpdateFailed == <<"Failed", "to", "update", "user", "profile">>
MsgUsernameUpdated == <<"Username", "updated", "successfully">>
MsgAccessTokenRequired == <<"Access", "token", "required">>
MsgGameCreated == <<"Game", "created", "successfully">>
MsgFailedToCreateGame == <<"Failed", "to", "create", "game">>
MsgGameUpdated == <<"Game", "updated", "successfully">>
MsgRoleUpdated == <<"User", "role", "updated">>
MsgCannotDemoteSelf == <<"SuperAdmin", "cannot", "demote", "themselves">>

MsgAlreadyInFavorites == <<"Game", "is", "already", "in", "your", "favorites">>
MsgFavoriteAdded == <<"Game", "added", "to", "favorites", "successfully">>
MsgFailedToAddFavorite == <<"Failed", "to", "add", "game", "to", "favorites">>
PrefixAddFavorite == <<"Failed", "to", "add", "game", "to", "favorites:">>
MsgNotInFavorites == <<"Game", "not", "found", "in", "favorites">>
MsgFavoriteRemoved == <<"Game", "removed", "from", "favorites", "successfully">>
MsgFailedToRemoveFavorite == <<"Failed", "to", "remove", "game", "from", "favorites">>
PrefixRemoveFavorite == <<"Failed", "to", "remove", "game", "from", "favorites:">>
MsgReviewNotFound == <<"Review", "not", "found">>
\* updateGameRating called on its own resolves with the new statistics
MsgRecomputed == <<"averageRating", "totalReviews">>
MsgDatastoreError == <<"connection", "closed">>
PrefixUpdateRating == <<"Failed", "to", "update", "game", "rating:">>
MsgFailedToRetrieveGame == <<"Failed", "to", "retrieve", "game">>
MsgFailedToRetrieveGames == <<"Failed", "to", "retrieve", "games">>
PrefixGetGame == <<"Failed", "to", "get", "game:">>
MsgAccountDeleted == <<"Account", "deleted", "successfully">>
MsgAccountDeleteFailed == <<"Failed", "to", "delete", "account">>
MsgInsufficientPermissions == <<"Insufficient", "permissions">>
MsgGameDeleted == <<"Game", "and", "associated", "reviews", "deleted", "successfully">>
MsgAvatarUploaded == <<"Avatar", "uploaded", "successfully">>
MsgValidationError == <<"Validation", "error">>
PrefixCreateUpdate == <<"Failed", "to", "create/update", "review:">>
PrefixDeleteReview == <<"Failed", "to", "delete", "review:">>

(* ------------------------------ records -------------------------------- *)
NoReq == [op |-> "none", uid |-> 0, gid |-> 0, rid |-> 0, body |-> NoBody]
\* caught: the message of the error a catch block of the handler received;
\* skip: the offset a listing has handed to the datastore
NoLoc == [role |-> "none", review |-> 0, isNew |-> FALSE, gameId |-> 0,
          avg |-> 0, total |-> 0, todo |-> <<>>, caught |-> <<>>, skip |-> 0]
NoResp == [status |-> 0, body |-> <<>>]
\* recomputed: the game of the request answered last, when that request was a
\* recompute, else 0
NoSnap == [taken |-> FALSE, recomputed |-> 0]

\* the rate limiter after the module is loaded: an empty Map, the clock at
\* the time of loading, callers that pass no parameters, no call made
NoLimiter == [userRateLimit |-> <<>>, now |-> 0, maxRequests |-> DefaultMaxRequests,
              windowMs |-> DefaultWindowMs, calls |-> <<>>]

Response(s, m) == [status |-> s, body |-> m]

\* res.json({ success: true, data, pagination }): a 200 response carrying data
ResponseData(d, pg) == [status |-> 200, body |-> <<>>, data |-> d, pagination |-> pg]

(* ------------------------- datastore queries --------------------------- *)
\* Game.findById
GameExists(g) == g \in Games /\ games[g].exists

\* the reviews matching { userId, gameId }
ReviewsOfPair(u, g) == {r \in reviews : r.userId = u /\ r.gameId = g}

\* fault: the lookup never finds the pair's review
FindReviewOfPair_NeverFound(u, g) == 0

\* Review.findOne({ userId, gameId }): the id of a matching review, 0 for null
FindReviewOfPair(u, g) ==
  IF ReviewsOfPair(u, g) = {} THEN 0
  ELSE (CHOOSE r \in ReviewsOfPair(u, g) :
          \A o \in ReviewsOfPair(u, g) : r.id <= o.id).id

\* Review.find({ gameId })
ReviewsOfGame(g) == {r \in reviews : r.gameId = g}

ReviewById(id) == CHOOSE r \in reviews : r.id = id
ReviewIdExists(id) == \E r \in reviews : r.id = id

RECURSIVE SumRatings(_)
SumRatings(S) ==
  IF S = {} THEN 0
  ELSE LET r == CHOOSE x \in S : TRUE IN r.rating + SumRatings(S \ {r})

\* fault: the mean is rounded to one decimal instead of two
Round2_OneDecimal(sum, n) == 10 * (((20 * sum) + n) \div (2 * n))

\* Math.round(avg * 100) / 100 of avg = sum / n, in hundredths
Round2(sum, n) == ((200 * sum) + n) \div (2 * n)

\* Math.round(avg * 10) / 10 and Number(avg.toFixed(1)), in hundredths
Round1(sum, n) == 10 * (((20 * sum) + n) \div (2 * n))

(* ------------------------------ validation ----------------------------- *)
\* String.prototype.trim on a sequence of characters
RECURSIVE TrimLeft(_)
TrimLeft(c) == IF c # <<>> /\ Head(c) = " " THEN TrimLeft(Tail(c)) ELSE c

RECURSIVE TrimRight(_)
TrimRight(c) ==
  IF c # <<>> /\ c[Len(c)] = " " THEN TrimRight(SubSeq(c, 1, Len(c) - 1)) ELSE c

Trim(c) == TrimRight(TrimLeft(c))

\* fault: the content rule is missing
ValidReview_RatingOnly(body) == body.rating \in MinRating..MaxRating

\* validateReview followed by validationResult(req).isEmpty()
ValidReview(body) ==
  /\ body.rating \in MinRating..MaxRating
  /\ Len(Trim(body.content)) \in MinContentLen..MaxContentLen

\* the body the controller sees: the trim() sanitizer rewrites req.body.content
Sanitized(body) == [body EXCEPT !.content = Trim(body.content)]

(* --------------------------- initial state ----------------------------- *)
\* the titles games are stored under, in alphabetical order
Titles == <<"Apex", "Brawl", "Chess">>
InitTitle(g) == IF g % 2 = 1 THEN Titles[2] ELSE Titles[1]

InitRole(u) == IF u = 1 THEN "superadmin" ELSE IF u = 2 THEN "admin" ELSE "user"

Init ==
  /\ users = [u \in Users |-> [exists |-> TRUE, role |-> InitRole(u), avatar |-> FALSE,
                               username |-> NoUsername]]
  /\ games = [g \in Games |-> [exists |-> TRUE, title |-> InitTitle(g),
                               averageRating |-> 0, totalReviews |-> 0]]
  /\ reviews = {}
  /\ favorites = {}
  /\ nextId = 1
  /\ pc = [p \in Procs |-> "idle"]
  /\ req = [p \in Procs |-> NoReq]
  /\ loc = [p \in Procs |-> NoLoc]
  /\ resp = [p \in Procs |-> NoResp]
  /\ snap = NoSnap
  /\ started = 0
  /\ limiter = NoLimiter

(* ------------------------- request plumbing ---------------------------- *)
\* requests in flight that may still insert a document
Inserters ==
  {q \in Procs : pc[q] \notin {"idle", "sent"} /\ req[q].op \in {"submit", "addFav"}}

\* a request arrives at an idle worker; seq marks a request that overlaps no
\* other, limit is the number of requests the run may receive (0: any number)
Arrive(p, r, seq, limit) ==
  /\ pc[p] = "idle"
  /\ seq => \A q \in Procs : pc[q] = "idle"
  /\ IF limit = 0
     THEN UNCHANGED started
     ELSE started < limit /\ started' = started + 1
  /\ UNCHANGED limiter
  /\ r.op \in {"submit", "addFav"} => nextId + Cardinality(Inserters) <= MaxIds
  /\ req' = [req EXCEPT ![p] = r]
  /\ snap' = IF seq
             THEN [taken |-> TRUE, recomputed |-> snap.recomputed, users |-> users,
                   games |-> games, reviews |-> reviews, favorites |-> favorites]
             ELSE NoSnap

\* res.status(s).json(...): the handler is finished
Reply(p, s, m) ==
  /\ pc' = [pc EXCEPT ![p] = "sent"]
  /\ resp' = [resp EXCEPT ![p] = Response(s, m)]
  /\ loc' = [loc EXCEPT ![p] = NoLoc]

\* the handler suspends at its next await
Goto(p, label, l) ==
  /\ pc' = [pc EXCEPT ![p] = label]
  /\ loc' = [loc EXCEPT ![p] = l]
  /\ UNCHANGED resp

\* authenticateToken passed: req.user is attached and the handler starts
Enter(p, r, label) ==
  /\ pc' = [pc EXCEPT ![p] = label]
  /\ loc' = [loc EXCEPT ![p] = [NoLoc EXCEPT !.role = users[r.uid].role]]
  /\ resp' = [resp EXCEPT ![p] = NoResp]

\* authenticateToken followed by requireRole(allowed): no token, a token of
\* a removed identity, a stored role outside allowed, or the handler starts
RoleGate(p, r, allowed, label) ==
  IF r.uid = 0 THEN Reply(p, 401, MsgAccessTokenRequired)
  ELSE IF ~users[r.uid].exists THEN Reply(p, 401, MsgUserNotFound)
  ELSE IF users[r.uid].role \notin allowed THEN Reply(p, 403, MsgInsufficientPermissions)
  ELSE Enter(p, r, label)

\* the response has been delivered and the worker takes the next request
Close(p) ==
  /\ pc[p] = "sent"
  /\ pc' = [pc EXCEPT ![p] = "idle"]
  /\ resp' = [resp EXCEPT ![p] = NoResp]
  /\ req' = [req EXCEPT ![p] = NoReq]
  /\ snap' = [NoSnap EXCEPT !.recomputed =
                IF req[p].op = "recompute" /\ resp[p].status = 200 THEN req[p].gid ELSE 0]
  /\ UNCHANGED <<users, games, reviews, favorites, nextId, loc, started, limiter>>

(* ----------------------- rating aggregation ---------------------------- *)
\* fault: the recompute is not awaited, the response goes out at once
RatingRead_NotAwaited(p) ==
  /\ pc[p] = "ratingRead"
  /\ Reply(p, 200, MsgReviewUpdated)
  /\ UNCHANGED <<users, games, reviews, favorites, nextId, req, snap, started, limiter>>

\* ReviewService.updateGameRating, first half: Review.find({ gameId }) and the
\* rounded mean
RatingRead(p) ==
  /\ pc[p] = "ratingRead"
  /\ LET rs == ReviewsOfGame(loc[p].gameId)
         n == Cardinality(rs)
     IN Goto(p, "ratingWrite",
             [loc[p] EXCEPT !.total = n,
                            !.avg = IF n > 0 THEN Round2(SumRatings(rs), n) ELSE 0])
  /\ UNCHANGED <<users, games, reviews, favorites, nextId, req, snap, started, limiter>>

\* fault: the count is added to the stored count instead of replacing it
UpdateRating_AddsCount(g, avg, total) ==
  IF GameExists(g)
  THEN [games EXCEPT ![g].averageRating = avg, ![g].totalReviews = @ + total]
  ELSE games

\* Game.updateRating: findByIdAndUpdate(gameId, { averageRating, totalReviews })
UpdateRating(g, avg, total) ==
  IF GameExists(g)
  THEN [games EXCEPT ![g].averageRating = avg, ![g].totalReviews = total]
  ELSE games

\* ReviewService.updateGameRating, second half, and the response of the
\* operation that triggered it
RatingWrite(p) ==
  /\ pc[p] = "ratingWrite"
  /\ games' = UpdateRating(loc[p].gameId, loc[p].avg, loc[p].total)
  /\ Reply(p, 200,
           CASE req[p].op = "submit" ->
                  IF loc[p].isNew THEN MsgReviewCreated ELSE MsgReviewUpdated
             [] req[p].op = "update" -> MsgReviewUpdated
             [] req[p].op = "recompute" -> MsgRecomputed
             [] OTHER -> MsgReviewDeleted)
  /\ UNCHANGED <<users, reviews, favorites, nextId, req, snap, started, limiter>>

\* the controller's updateGameRating helper catches and logs what the service
\* throws; the service methods rethrow it to their controllers
HelperSwallows(op) == op = "update"

\* Review.find or Game.updateRating rejects inside updateGameRating: nothing
\* is written, and the triggering operation answers as its catch blocks say
RatingFail(p) ==
  /\ pc[p] \in {"ratingRead", "ratingWrite"}
  /\ req[p].op \in {"submit", "update", "delete"}
  /\ LET e == PrefixUpdateRating \o MsgDatastoreError
         m == IF req[p].op = "submit" THEN PrefixCreateUpdate \o e
              ELSE PrefixDeleteReview \o e
         answer ==
           IF HelperSwallows(req[p].op) THEN Response(200, MsgReviewUpdated)
           ELSE IF req[p].op = "submit" THEN Response(500, m)
           ELSE IF Includes(m, <<"not", "found">>) \/ Includes(m, <<"not", "authorized">>)
                THEN Response(404, m)
                ELSE Response(500, MsgFailedToDeleteReview)
     IN /\ pc' = [pc EXCEPT ![p] = "sent"]
        /\ resp' = [resp EXCEPT ![p] = answer]
        /\ loc' = [loc EXCEPT ![p] = [NoLoc EXCEPT !.caught = e]]
  /\ UNCHANGED <<users, games, reviews, favorites, nextId, req, snap, started, limiter>>

\* ReviewService.updateGameRating(gameId) called on its own
RecomputeBegin(p, gid, seq, limit) ==
  LET r == [op |-> "recompute", uid |-> 0, gid |-> gid, rid |-> 0, body |-> NoBody]
  IN /\ Arrive(p, r, seq, limit)
     /\ pc' = [pc EXCEPT ![p] = "ratingRead"]
     /\ loc' = [loc EXCEPT ![p] = [NoLoc EXCEPT !.gameId = gid]]
     /\ resp' = [resp EXCEPT ![p] = NoResp]
     /\ UNCHANGED <<users, games, reviews, favorites, nextId>>

(* ---------------- POST /api/reviews/:gameId (submit) -------------------- *)
SubmitBegin(p, uid, gid, body, seq, limit) ==
  LET r == [op |-> "submit", uid |-> uid, gid |-> gid, rid |-> 0,
            body |-> Sanitized(body)]
  IN /\ Arrive(p, r, seq, limit)
     /\ IF ~users[uid].exists THEN Reply(p, 401, MsgUserNotFound)
        ELSE IF ~ValidReview(body) THEN Reply(p, 400, MsgValidationFailed)
        ELSE Enter(p, r, "findGame")
     /\ UNCHANGED <<users, games, reviews, favorites, nextId>>

\* controller: Game.findById(gameId)
SubmitFindGame(p) ==
  /\ pc[p] = "findGame"
  /\ IF GameExists(req[p].gid)
     THEN Goto(p, "findReview", loc[p])
     ELSE Reply(p, 404, MsgGameNotFound)
  /\ UNCHANGED <<users, games, reviews, favorites, nextId, req, snap, started, limiter>>

\* service: Review.findOne({ userId, gameId })
SubmitFindReview(p) ==
  /\ pc[p] = "findReview"
  /\ Goto(p, "save", [loc[p] EXCEPT !.review = FindReviewOfPair(req[p].uid, req[p].gid)])
  /\ UNCHANGED <<users, games, reviews, favorites, nextId, req, snap, started, limiter>>

\* fault: the Review collection has no unique index
ReviewIndexAllows_NoIndex(u, g) == TRUE

\* the unique index { userId: 1, gameId: 1 } of the Review collection
ReviewIndexAllows(u, g) == ReviewsOfPair(u, g) = {}

\* fault: the save writes the rating and keeps the old content
SaveReview_RatingOnly(id, body) ==
  {IF r.id = id THEN [r EXCEPT !.rating = body.rating] ELSE r : r \in reviews}

\* document.save() of a loaded review: updateOne by _id
SaveReview(id, body) ==
  {IF r.id = id THEN [r EXCEPT !.rating = body.rating, !.content = body.content]
   ELSE r : r \in reviews}

\* service: review.save() on the update path or on the create path; an error
\* is rethrown without its code and answered 500 by the controller
SubmitSave(p) ==
  /\ pc[p] = "save"
  /\ IF loc[p].review # 0
     THEN IF ReviewIdExists(loc[p].review)
          THEN /\ reviews' = SaveReview(loc[p].review, req[p].body)
               /\ Goto(p, "ratingRead", [loc[p] EXCEPT !.gameId = req[p].gid])
               /\ UNCHANGED nextId
          ELSE /\ Reply(p, 500, PrefixCreateUpdate \o MsgDocumentNotFound)
               /\ UNCHANGED <<reviews, nextId>>
     ELSE IF ReviewIndexAllows(req[p].uid, req[p].gid)
          THEN /\ reviews' = reviews \cup
                    {[id |-> nextId, userId |-> req[p].uid, gameId |-> req[p].gid,
                      rating |-> req[p].body.rating, content |-> req[p].body.content]}
               /\ nextId' = nextId + 1
               /\ Goto(p, "ratingRead",
                       [loc[p] EXCEPT !.gameId = req[p].gid, !.isNew = TRUE])
          ELSE /\ Reply(p, 500, PrefixCreateUpdate \o MsgDuplicateKey)
               /\ UNCHANGED <<reviews, nextId>>
  /\ UNCHANGED <<users, games, favorites, req, snap, started, limiter>>

(* ---------------- PUT /api/reviews/:reviewId (update) ------------------- *)
UpdateBegin(p, uid, rid, body, seq, limit) ==
  LET r == [op |-> "update", uid |-> uid, gid |-> 0, rid |-> rid,
            body |-> Sanitized(body)]
  IN /\ Arrive(p, r, seq, limit)
     /\ IF ~users[uid].exists THEN Reply(p, 401, MsgUserNotFound)
        ELSE IF ~ValidReview(body) THEN Reply(p, 400, MsgValidationFailed)
        ELSE Enter(p, r, "updFind")
     /\ UNCHANGED <<users, games, reviews, favorites, nextId>>

\* fault: the lookup filters on the review id alone
OwnReviewExists_AnyOwner(rid, uid) == \E r \in reviews : r.id = rid

\* Review.findOne({ _id: reviewId, userId })
OwnReviewExists(rid, uid) == \E r \in reviews : r.id = rid /\ r.userId = uid

UpdateFind(p) ==
  /\ pc[p] = "updFind"
  /\ IF OwnReviewExists(req[p].rid, req[p].uid)
     THEN Goto(p, "updSave", [loc[p] EXCEPT !.review = req[p].rid,
                                            !.gameId = ReviewById(req[p].rid).gameId])
     ELSE Reply(p, 404, MsgNotFoundOrUnauthorizedUpdate)
  /\ UNCHANGED <<users, games, reviews, favorites, nextId, req, snap, started, limiter>>

\* review.rating = rating; review.content = content; await review.save()
UpdateSave(p) ==
  /\ pc[p] = "updSave"
  /\ IF ReviewIdExists(loc[p].review)
     THEN /\ reviews' = SaveReview(loc[p].review, req[p].body)
          /\ Goto(p, "ratingRead", loc[p])
     ELSE /\ Reply(p, 500, MsgFailedToUpdateReview)
          /\ UNCHANGED reviews
  /\ UNCHANGED <<users, games, favorites, nextId, req, snap, started, limiter>>

(* --------------- DELETE /api/reviews/:reviewId (delete) ----------------- *)
DeleteBegin(p, uid, rid, seq, limit) ==
  LET r == [op |-> "delete", uid |-> uid, gid |-> 0, rid |-> rid, body |-> NoBody]
  IN /\ Arrive(p, r, seq, limit)
     /\ IF ~users[uid].exists THEN Reply(p, 401, MsgUserNotFound)
        ELSE Enter(p, r, "delFind")
     /\ UNCHANGED <<users, games, reviews, favorites, nextId>>

\* service: Review.findOne({ _id: reviewId, userId }); the controller answers
\* 404 when the rethrown message includes "not found" or "not authorized"
DeleteFind(p) ==
  /\ pc[p] = "delFind"
  /\ IF OwnReviewExists(req[p].rid, req[p].uid)
     THEN Goto(p, "delDo", [loc[p] EXCEPT !.review = req[p].rid,
                                          !.gameId = ReviewById(req[p].rid).gameId])
     ELSE LET m == PrefixDeleteReview \o MsgNotFoundOrUnauthorizedDelete
          IN IF Includes(m, <<"not", "found">>) \/ Includes(m, <<"not", "authorized">>)
             THEN Reply(p, 404, m)
             ELSE Reply(p, 500, MsgFailedToDeleteReview)
  /\ UNCHANGED <<users, games, reviews, favorites, nextId, req, snap, started, limiter>>

\* service: Review.findByIdAndDelete(reviewId)
DeleteDo(p) ==
  /\ pc[p] = "delDo"
  /\ reviews' = {r \in reviews : r.id # loc[p].review}
  /\ Goto(p, "ratingRead", loc[p])
  /\ UNCHANGED <<users, games, favorites, nextId, req, snap, started, limiter>>

(* ------------------ POST /api/favorites/:gameId (add) ------------------- *)
\* fault: the catch block has no branch for "already in"
AddFavoriteError_NoConflictBranch(p, m) ==
  IF Includes(m, <<"not", "found">>) THEN Reply(p, 404, m)
  ELSE Reply(p, 500, MsgFailedToAddFavorite)

\* favoriteController.addToFavorites, catch block: the status is chosen by
\* what the service's error message includes
AddFavoriteError(p, m) ==
  IF Includes(m, <<"not", "found">>) THEN Reply(p, 404, m)
  ELSE IF Includes(m, <<"already", "in">>) THEN Reply(p, 400, m)
  ELSE Reply(p, 500, MsgFailedToAddFavorite)

AddFavoriteBegin(p, uid, gid, seq, limit) ==
  LET r == [op |-> "addFav", uid |-> uid, gid |-> gid, rid |-> 0, body |-> NoBody]
  IN /\ Arrive(p, r, seq, limit)
     /\ IF ~users[uid].exists THEN Reply(p, 401, MsgUserNotFound)
        ELSE Enter(p, r, "favFindGame")
     /\ UNCHANGED <<users, games, reviews, favorites, nextId>>

\* service: Game.findById(gameId)
AddFavoriteFindGame(p) ==
  /\ pc[p] = "favFindGame"
  /\ IF GameExists(req[p].gid)
     THEN Goto(p, "favFind", loc[p])
     ELSE AddFavoriteError(p, PrefixAddFavorite \o MsgGameNotFound)
  /\ UNCHANGED <<users, games, reviews, favorites, nextId, req, snap, started, limiter>>

FavoritesOfPair(u, g) == {f \in favorites : f.userId = u /\ f.gameId = g}

\* service: Favorite.findOne({ userId, gameId })
AddFavoriteFind(p) ==
  /\ pc[p] = "favFind"
  /\ IF FavoritesOfPair(req[p].uid, req[p].gid) # {}
     THEN AddFavoriteError(p, PrefixAddFavorite \o MsgAlreadyInFavorites)
     ELSE Goto(p, "favSave", loc[p])
  /\ UNCHANGED <<users, games, reviews, favorites, nextId, req, snap, started, limiter>>

\* the unique index { userId: 1, gameId: 1 } of the Favorite collection
FavoriteIndexAllows(u, g) == FavoritesOfPair(u, g) = {}

\* service: favorite.save(); a duplicate key error (code 11000) is rethrown
\* as "Game is already in your favorites"
AddFavoriteSave(p) ==
  /\ pc[p] = "favSave"
  /\ IF FavoriteIndexAllows(req[p].uid, req[p].gid)
     THEN /\ favorites' = favorites \cup
               {[id |-> nextId, userId |-> req[p].uid, gameId |-> req[p].gid]}
          /\ nextId' = nextId + 1
          /\ Reply(p, 201, MsgFavoriteAdded)
     ELSE /\ AddFavoriteError(p, MsgAlreadyInFavorites)
          /\ UNCHANGED <<favorites, nextId>>
  /\ UNCHANGED <<users, games, reviews, req, snap, started, limiter>>

(* --------------- DELETE /api/favorites/:gameId (remove) ----------------- *)
RemoveFavoriteBegin(p, uid, gid, seq, limit) ==
  LET r == [op |-> "removeFav", uid |-> uid, gid |-> gid, rid |-> 0, body |-> NoBody]
  IN /\ Arrive(p, r, seq, limit)
     /\ IF ~users[uid].exists THEN Reply(p, 401, MsgUserNotFound)
        ELSE Enter(p, r, "favRemove")
     /\ UNCHANGED <<users, games, reviews, favorites, nextId>>

\* fault: the filter of the removal names the identity alone
FindFavoriteOfPair_AnyGame(u, g) ==
  IF {f \in favorites : f.userId = u} = {} THEN 0
  ELSE (CHOOSE f \in {x \in favorites : x.userId = u} :
          \A o \in {x \in favorites : x.userId = u} : f.id <= o.id).id

\* the document Favorite.findOneAndDelete({ userId, gameId }) matches: its id,
\* 0 for null
FindFavoriteOfPair(u, g) ==
  IF FavoritesOfPair(u, g) = {} THEN 0
  ELSE (CHOOSE f \in FavoritesOfPair(u, g) :
          \A o \in FavoritesOfPair(u, g) : f.id <= o.id).id

\* service: Favorite.findOneAndDelete({ userId, gameId }); the controller
\* answers 404 when the rethrown message includes "not found"
RemoveFavoriteDo(p) ==
  /\ pc[p] = "favRemove"
  /\ LET id == FindFavoriteOfPair(req[p].uid, req[p].gid)
         m == PrefixRemoveFavorite \o MsgNotInFavorites
     IN IF id # 0
        THEN /\ favorites' = {f \in favorites : f.id # id}
             /\ Reply(p, 200, MsgFavoriteRemoved)
        ELSE /\ UNCHANGED favorites
             /\ IF Includes(m, <<"not", "found">>)
                THEN Reply(p, 404, m)
                ELSE Reply(p, 500, MsgFailedToRemoveFavorite)
  /\ UNCHANGED <<users, games, reviews, nextId, req, snap, started, limiter>>

\* FavoriteService.checkFavoriteStatus: isFavorite = !!favorite
CheckFavoriteStatus(u, g) == FavoritesOfPair(u, g) # {}

(* ------------- DELETE /api/users/account (account deletion) ------------- *)
\* the modules userController.js requires at its top
ControllerImports ==
  {"../models/User", "../config/cloudinary", "../utils/constants", "../utils/helpers"}

\* path.join and fs.unlink are evaluated only when both names are bound
AvatarCleanupThrows == ~({"path", "fs"} \subseteq ControllerImports)

DeleteAccountBegin(p, uid, seq, limit) ==
  LET r == [op |-> "deleteAccount", uid |-> uid, gid |-> 0, rid |-> 0, body |-> NoBody]
  IN /\ Arrive(p, r, seq, limit)
     /\ IF ~users[uid].exists THEN Reply(p, 401, MsgUserNotFound)
        ELSE Enter(p, r, "daFindUser")
     /\ UNCHANGED <<users, games, reviews, favorites, nextId>>

\* User.findById(userId), then the avatar file cleanup
DeleteAccountFindUser(p) ==
  /\ pc[p] = "daFindUser"
  /\ IF ~users[req[p].uid].exists THEN Reply(p, 404, MsgUserNotFound)
     ELSE IF users[req[p].uid].avatar /\ AvatarCleanupThrows
          THEN Reply(p, 500, MsgAccountDeleteFailed)
          ELSE Goto(p, "daFindReviews", loc[p])
  /\ UNCHANGED <<users, games, reviews, favorites, nextId, req, snap, started, limiter>>

\* the game ids of a set of reviews, in _id order
RECURSIVE GameIdsInOrder(_)
GameIdsInOrder(S) ==
  IF S = {} THEN <<>>
  ELSE LET r == CHOOSE x \in S : \A y \in S : x.id <= y.id
       IN <<r.gameId>> \o GameIdsInOrder(S \ {r})

\* after one pass of the for loop: next review or the deletions
AfterUserReview(todo) == IF todo = <<>> THEN "daDelReviews" ELSE "daReadOthers"

\* userReviews = await Review.find({ userId })
DeleteAccountFindReviews(p) ==
  /\ pc[p] = "daFindReviews"
  /\ LET todo == GameIdsInOrder({r \in reviews : r.userId = req[p].uid})
     IN Goto(p, AfterUserReview(todo), [loc[p] EXCEPT !.todo = todo])
  /\ UNCHANGED <<users, games, reviews, favorites, nextId, req, snap, started, limiter>>

\* loop body, first half: Review.find({ gameId, userId: { $ne: userId } })
\* and Number(averageRating.toFixed(1))
DeleteAccountReadOthers(p) ==
  /\ pc[p] = "daReadOthers"
  /\ LET g == Head(loc[p].todo)
         rs == {r \in reviews : r.gameId = g /\ r.userId # req[p].uid}
         n == Cardinality(rs)
     IN Goto(p, "daWriteGame",
             [loc[p] EXCEPT !.gameId = g, !.total = n,
                            !.avg = IF n > 0 THEN Round1(SumRatings(rs), n) ELSE 0])
  /\ UNCHANGED <<users, games, reviews, favorites, nextId, req, snap, started, limiter>>

\* loop body, second half: Game.findByIdAndUpdate(review.gameId, {...})
DeleteAccountWriteGame(p) ==
  /\ pc[p] = "daWriteGame"
  /\ games' = UpdateRating(loc[p].gameId, loc[p].avg, loc[p].total)
  /\ Goto(p, AfterUserReview(Tail(loc[p].todo)),
          [loc[p] EXCEPT !.todo = Tail(loc[p].todo)])
  /\ UNCHANGED <<users, reviews, favorites, nextId, req, snap, started, limiter>>

\* Review.deleteMany({ userId })
DeleteAccountReviews(p) ==
  /\ pc[p] = "daDelReviews"
  /\ reviews' = {r \in reviews : r.userId # req[p].uid}
  /\ Goto(p, "daDelFavs", loc[p])
  /\ UNCHANGED <<users, games, favorites, nextId, req, snap, started, limiter>>

\* Favorite.deleteMany({ userId })
DeleteAccountFavorites(p) ==
  /\ pc[p] = "daDelFavs"
  /\ favorites' = {f \in favorites : f.userId # req[p].uid}
  /\ Goto(p, "daDelUser", loc[p])
  /\ UNCHANGED <<users, games, reviews, nextId, req, snap, started, limiter>>

\* User.findByIdAndDelete(userId)
DeleteAccountUser(p) ==
  /\ pc[p] = "daDelUser"
  /\ users' = [users EXCEPT ![req[p].uid].exists = FALSE, ![req[p].uid].avatar = FALSE]
  /\ Reply(p, 200, MsgAccountDeleted)
  /\ UNCHANGED <<games, reviews, favorites, nextId, req, snap, started, limiter>>

(* ------------- PUT /api/users/profile, PUT /api/users/username ---------- *)
\* the letters of the model's alphabet, lower and upper case side by side
LowerCase == <<"a", "b">>
UpperCase == <<"A", "B">>
Letters == {LowerCase[i] : i \in DOMAIN LowerCase} \cup {UpperCase[i] : i \in DOMAIN UpperCase}

\* String.prototype.toLowerCase, and the comparison a RegExp with flag i makes
ToLowerCase(name) ==
  [i \in DOMAIN name |->
     IF \E k \in DOMAIN UpperCase : UpperCase[k] = name[i]
     THEN LowerCase[CHOOSE k \in DOMAIN UpperCase : UpperCase[k] = name[i]]
     ELSE name[i]]

\* /^[a-zA-Z0-9._]+$/ of updateProfile and /^[a-zA-Z0-9_-]+$/ of updateUsername
ProfilePattern(name) ==
  name # <<>> /\ \A i \in DOMAIN name : name[i] \in Letters \cup {".", "_"}
UsernamePattern(name) ==
  name # <<>> /\ \A i \in DOMAIN name : name[i] \in Letters \cup {"_", "-"}

\* the checks of updateProfile on a username that is given
ValidProfileUsername(name) ==
  /\ Trim(name) # <<>>
  /\ Len(Trim(name)) >= MinUsernameLen
  /\ ProfilePattern(Trim(name))

\* the checks of updateUsername
ValidUsername(name) ==
  /\ name # <<>>
  /\ Len(name) >= MinUsernameLen
  /\ Len(name) <= MaxUsernameLen
  /\ UsernamePattern(name)

\* the unique sparse index of User.username compares the stored strings
UsernameIndexAllows(uid, name) ==
  \A o \in DOMAIN users : (o # uid /\ users[o].exists) => users[o].username # name

UpdateProfileBegin(p, uid, name, seq, limit) ==
  LET r == [op |-> "updateProfile", uid |-> uid, gid |-> 0, rid |-> 0,
            body |-> [username |-> name]]
  IN /\ Arrive(p, r, seq, limit)
     /\ IF ~users[uid].exists THEN Reply(p, 401, MsgUserNotFound)
        ELSE IF ~ValidProfileUsername(name) THEN Reply(p, 400, MsgValidationError)
        ELSE Enter(p, r, "upFind")
     /\ UNCHANGED <<users, games, reviews, favorites, nextId>>

\* User.findOne({ username: username.trim(), _id: { $ne: req.user._id } })
ProfileUsernameTaken(uid, name) ==
  \E o \in DOMAIN users : o # uid /\ users[o].exists /\ users[o].username = name

UpdateProfileFind(p) ==
  /\ pc[p] = "upFind"
  /\ IF ProfileUsernameTaken(req[p].uid, Trim(req[p].body.username))
     THEN Reply(p, 400, MsgUsernameTaken)
     ELSE Goto(p, "upSave", loc[p])
  /\ UNCHANGED <<users, games, reviews, favorites, nextId, req, snap, started, limiter>>

\* User.findByIdAndUpdate(req.user._id, { name, username: username.trim() });
\* a duplicate key error has no branch in the catch block and is answered 500
UpdateProfileSave(p) ==
  /\ pc[p] = "upSave"
  /\ LET name == Trim(req[p].body.username)
     IN IF ~users[req[p].uid].exists
        THEN Reply(p, 404, MsgUserNotFound) /\ UNCHANGED users
        ELSE IF ~UsernameIndexAllows(req[p].uid, name)
             THEN Reply(p, 500, MsgProfileUpdateFailed) /\ UNCHANGED users
             ELSE /\ users' = [users EXCEPT ![req[p].uid].username = name]
                  /\ Reply(p, 200, MsgProfileUpdated)
  /\ UNCHANGED <<games, reviews, favorites, nextId, req, snap, started, limiter>>

UpdateUsernameBegin(p, uid, name, seq, limit) ==
  LET r == [op |-> "updateUsername", uid |-> uid, gid |-> 0, rid |-> 0,
            body |-> [username |-> name]]
  IN /\ Arrive(p, r, seq, limit)
     /\ IF ~users[uid].exists THEN Reply(p, 401, MsgUserNotFound)
        ELSE IF ~ValidUsername(name) THEN Reply(p, 400, MsgValidationError)
        ELSE Enter(p, r, "unFind")
     /\ UNCHANGED <<users, games, reviews, favorites, nextId>>

\* User.findOne({ username: { $regex: new RegExp(`^${username}$`, "i") },
\*                _id: { $ne: req.user._id } })
UsernameTaken(uid, name) ==
  \E o \in DOMAIN users :
    /\ o # uid
    /\ users[o].exists
    /\ users[o].username # NoUsername
    /\ ToLowerCase(users[o].username) = ToLowerCase(name)

UpdateUsernameFind(p) ==
  /\ pc[p] = "unFind"
  /\ IF UsernameTaken(req[p].uid, req[p].body.username)
     THEN Reply(p, 400, MsgUsernameTaken)
     ELSE Goto(p, "unSave", loc[p])
  /\ UNCHANGED <<users, games, reviews, favorites, nextId, req, snap, started, limiter>>

\* User.findByIdAndUpdate(req.user._id, { username: username.toLowerCase() });
\* a duplicate key error (code 11000) is answered 400
UpdateUsernameSave(p) ==
  /\ pc[p] = "unSave"
  /\ LET name == ToLowerCase(req[p].body.username)
     IN IF ~users[req[p].uid].exists
        THEN Reply(p, 404, MsgUserNotFound) /\ UNCHANGED users
        ELSE IF ~UsernameIndexAllows(req[p].uid, name)
             THEN Reply(p, 400, MsgUsernameTaken) /\ UNCHANGED users
             ELSE /\ users' = [users EXCEPT ![req[p].uid].username = name]
                  /\ Reply(p, 200, MsgUsernameUpdated)
  /\ UNCHANGED <<games, reviews, favorites, nextId, req, snap, started, limiter>>

(* ------------------- POST /api/users/avatar (upload) -------------------- *)
UploadAvatarBegin(p, uid, hasFile, seq, limit) ==
  LET r == [op |-> "uploadAvatar", uid |-> uid, gid |-> 0, rid |-> 0, body |-> NoBody]
  IN /\ Arrive(p, r, seq, limit)
     /\ IF ~users[uid].exists THEN Reply(p, 401, MsgUserNotFound)
        ELSE IF ~hasFile THEN Reply(p, 400, MsgValidationError)
        ELSE Enter(p, r, "uaUpdate")
     /\ UNCHANGED <<users, games, reviews, favorites, nextId>>

\* User.findByIdAndUpdate(userId, { avatar, avatarPublicId })
UploadAvatarUpdate(p) ==
  /\ pc[p] = "uaUpdate"
  /\ IF users[req[p].uid].exists
     THEN /\ users' = [users EXCEPT ![req[p].uid].avatar = TRUE]
          /\ Reply(p, 200, MsgAvatarUploaded)
     ELSE /\ Reply(p, 404, MsgUserNotFound)
          /\ UNCHANGED users
  /\ UNCHANGED <<games, reviews, favorites, nextId, req, snap, started, limiter>>

(* ------------- DELETE /api/admin/games/:id (admin delete) --------------- *)
\* fault: the role check lets every role through
AdminRoles_Everyone == {"user", "admin", "superadmin"}

\* requireRole(["admin", "superadmin"])
AdminRoles == {"admin", "superadmin"}

AdminDeleteGameBegin(p, uid, gid, seq, limit) ==
  LET r == [op |-> "adminDeleteGame", uid |-> uid, gid |-> gid, rid |-> 0,
            body |-> NoBody]
  IN /\ Arrive(p, r, seq, limit)
     /\ RoleGate(p, r, AdminRoles, "adgFind")
     /\ UNCHANGED <<users, games, reviews, favorites, nextId>>

\* Game.findById(gameId)
AdminDeleteGameFind(p) ==
  /\ pc[p] = "adgFind"
  /\ IF GameExists(req[p].gid)
     THEN Goto(p, "adgDelReviews", loc[p])
     ELSE Reply(p, 404, MsgGameNotFound)
  /\ UNCHANGED <<users, games, reviews, favorites, nextId, req, snap, started, limiter>>

\* a filter { field: value } matches the documents that store value under field
Matches(doc, field, value) == field \in DOMAIN doc /\ doc[field] = value

\* Review.deleteMany({ game: gameId })
AdminDeleteGameReviews(p) ==
  /\ pc[p] = "adgDelReviews"
  /\ reviews' = {r \in reviews : ~Matches(r, "game", req[p].gid)}
  /\ Goto(p, "adgDelGame", loc[p])
  /\ UNCHANGED <<users, games, favorites, nextId, req, snap, started, limiter>>

\* Game.findByIdAndDelete(gameId)
AdminDeleteGameDelete(p) ==
  /\ pc[p] = "adgDelGame"
  /\ games' = [games EXCEPT ![req[p].gid].exists = FALSE]
  /\ Reply(p, 200, MsgGameDeleted)
  /\ UNCHANGED <<users, reviews, favorites, nextId, req, snap, started, limiter>>

(* --------------- POST /api/admin/games (admin create) ------------------- *)
\* the id of the document an insert into the Game collection creates: an id
\* no stored document carries or refers to, 0 when the ids are used up
FreshGameId ==
  LET free == {g \in Games : /\ ~games[g].exists
                             /\ \A r \in reviews : r.gameId # g
                             /\ \A f \in favorites : f.gameId # g}
  IN IF free = {} THEN 0 ELSE CHOOSE g \in free : \A h \in free : g <= h

\* body("title").notEmpty() of the create route
ValidGame(body) == "title" \in DOMAIN body /\ body.title # ""

AdminCreateGameBegin(p, uid, body, seq, limit) ==
  LET r == [op |-> "adminCreateGame", uid |-> uid, gid |-> 0, rid |-> 0, body |-> body]
  IN /\ Arrive(p, r, seq, limit)
     /\ RoleGate(p, r, AdminRoles, IF ValidGame(body) THEN "acgSave" ELSE "acgInvalid")
     /\ UNCHANGED <<users, games, reviews, favorites, nextId>>

\* validationResult(req) is not empty
AdminCreateGameInvalid(p) ==
  /\ pc[p] = "acgInvalid"
  /\ Reply(p, 400, MsgValidationFailed)
  /\ UNCHANGED <<users, games, reviews, favorites, nextId, req, snap, started, limiter>>

\* game.save() of { ...req.body, averageRating: 0, totalReviews: 0 } resolves
AdminCreateGameSave(p) ==
  /\ pc[p] = "acgSave"
  /\ FreshGameId # 0
  /\ games' = [games EXCEPT ![FreshGameId] =
                 [exists |-> TRUE, title |-> req[p].body.title,
                  averageRating |-> 0, totalReviews |-> 0]]
  /\ Reply(p, 201, MsgGameCreated)
  /\ UNCHANGED <<users, reviews, favorites, nextId, req, snap, started, limiter>>

\* game.save() rejects (a schema validation or duplicate key error)
AdminCreateGameReject(p) ==
  /\ pc[p] = "acgSave"
  /\ Reply(p, 500, MsgFailedToCreateGame)
  /\ UNCHANGED <<users, games, reviews, favorites, nextId, req, snap, started, limiter>>

(* ---------------- PUT /api/admin/games/:id (admin edit) ----------------- *)
\* body("title").optional().notEmpty() of the edit route
ValidGameUpdate(body) == "title" \in DOMAIN body => body.title # ""

AdminEditGameBegin(p, uid, gid, body, seq, limit) ==
  LET r == [op |-> "adminEditGame", uid |-> uid, gid |-> gid, rid |-> 0, body |-> body]
  IN /\ Arrive(p, r, seq, limit)
     /\ RoleGate(p, r, AdminRoles, IF ValidGameUpdate(body) THEN "aegUpdate" ELSE "aegInvalid")
     /\ UNCHANGED <<users, games, reviews, favorites, nextId>>

\* validationResult(req) is not empty
AdminEditGameInvalid(p) ==
  /\ pc[p] = "aegInvalid"
  /\ Reply(p, 400, MsgValidationFailed)
  /\ UNCHANGED <<users, games, reviews, favorites, nextId, req, snap, started, limiter>>

\* an update document applied to a stored document: every schema path the
\* update names is set, the others are kept
ApplyUpdate(doc, update) ==
  [f \in DOMAIN doc |-> IF f \in DOMAIN update THEN update[f] ELSE doc[f]]

\* updateData = { ...req.body }; Game.findByIdAndUpdate(gameId, updateData)
AdminEditGameUpdate(p) ==
  /\ pc[p] = "aegUpdate"
  /\ IF GameExists(req[p].gid)
     THEN /\ games' = [games EXCEPT ![req[p].gid] = ApplyUpdate(@, req[p].body)]
          /\ Reply(p, 200, MsgGameUpdated)
     ELSE /\ Reply(p, 404, MsgGameNotFound)
          /\ UNCHANGED games
  /\ UNCHANGED <<users, reviews, favorites, nextId, req, snap, started, limiter>>

(* ----------- DELETE /api/admin/reviews/:id (moderation delete) ---------- *)
AdminDeleteReviewBegin(p, uid, rid, seq, limit) ==
  LET r == [op |-> "adminDeleteReview", uid |-> uid, gid |-> 0, rid |-> rid,
            body |-> NoBody]
  IN /\ Arrive(p, r, seq, limit)
     /\ RoleGate(p, r, AdminRoles, "adrFind")
     /\ UNCHANGED <<users, games, reviews, favorites, nextId>>

\* Review.findById(reviewId)
AdminDeleteReviewFind(p) ==
  /\ pc[p] = "adrFind"
  /\ IF ReviewIdExists(req[p].rid)
     THEN Goto(p, "adrDelete", [loc[p] EXCEPT !.review = req[p].rid,
                                             !.gameId = ReviewById(req[p].rid).gameId])
     ELSE Reply(p, 404, MsgReviewNotFound)
  /\ UNCHANGED <<users, games, reviews, favorites, nextId, req, snap, started, limiter>>

\* Review.findByIdAndDelete(reviewId)
AdminDeleteReviewDelete(p) ==
  /\ pc[p] = "adrDelete"
  /\ reviews' = {r \in reviews : r.id # loc[p].review}
  /\ Goto(p, "adrRead", loc[p])
  /\ UNCHANGED <<users, games, favorites, nextId, req, snap, started, limiter>>

\* Review.find({ gameId: review.gameId }) and Math.round(averageRating * 10) / 10
AdminDeleteReviewRead(p) ==
  /\ pc[p] = "adrRead"
  /\ LET rs == ReviewsOfGame(loc[p].gameId)
         n == Cardinality(rs)
     IN Goto(p, "adrWrite",
             [loc[p] EXCEPT !.total = n,
                            !.avg = IF n > 0 THEN Round1(SumRatings(rs), n) ELSE 0])
  /\ UNCHANGED <<users, games, reviews, favorites, nextId, req, snap, started, limiter>>

\* Game.findByIdAndUpdate(review.gameId, { averageRating, totalReviews })
AdminDeleteReviewWrite(p) ==
  /\ pc[p] = "adrWrite"
  /\ games' = UpdateRating(loc[p].gameId, loc[p].avg, loc[p].total)
  /\ Reply(p, 200, MsgReviewDeleted)
  /\ UNCHANGED <<users, reviews, favorites, nextId, req, snap, started, limiter>>

(* ------------------- GET /api/admin/users (list users) ------------------ *)
\* fault: admins pass the check meant for superadmins
SuperAdminRoles_WithAdmin == {"admin", "superadmin"}

\* requireRole(["superadmin"])
SuperAdminRoles == {"superadmin"}

ListUsersBegin(p, uid, seq, limit) ==
  LET r == [op |-> "listUsers", uid |-> uid, gid |-> 0, rid |-> 0, body |-> NoBody]
  IN /\ Arrive(p, r, seq, limit)
     /\ RoleGate(p, r, SuperAdminRoles, "luFind")
     /\ UNCHANGED <<users, games, reviews, favorites, nextId>>

RECURSIVE UsersNewestFirst(_)
\* User.find(filter).sort({ createdAt: -1 }): identities are created in the
\* order of their ids
UsersNewestFirst(S) ==
  IF S = {} THEN <<>>
  ELSE LET u == CHOOSE x \in S : \A y \in S : x >= y
       IN <<[id |-> u, role |-> users[u].role]>> \o UsersNewestFirst(S \ {u})

\* User.find({}).skip(0).limit(20) and User.countDocuments({}) of a request
\* without query parameters
ListUsersFind(p) ==
  /\ pc[p] = "luFind"
  /\ LET all == UsersNewestFirst({u \in DOMAIN users : users[u].exists})
         n == Len(all)
         d == SubSeq(all, 1, IF n < UsersPerPage THEN n ELSE UsersPerPage)
         totalPages == (n + UsersPerPage - 1) \div UsersPerPage
     IN /\ pc' = [pc EXCEPT ![p] = "sent"]
        /\ resp' = [resp EXCEPT ![p] =
                      ResponseData(d, [currentPage |-> 1, totalPages |-> totalPages,
                                       totalUsers |-> n, usersPerPage |-> UsersPerPage,
                                       hasNextPage |-> 1 < totalPages,
                                       hasPreviousPage |-> FALSE])]
        /\ loc' = [loc EXCEPT ![p] = NoLoc]
  /\ UNCHANGED <<users, games, reviews, favorites, nextId, req, snap, started, limiter>>

(* --------------- PUT /api/admin/users/:id/role (role update) ------------ *)
\* body("role").isIn(["user", "admin", "superadmin"])
Roles == {"user", "admin", "superadmin"}

\* userId === req.user.id && req.user.role === "superadmin" && role !== "superadmin"
SelfDemotion(uid, role, target, newRole) ==
  target = uid /\ role = "superadmin" /\ newRole # "superadmin"

\* the role of req.user is the one authenticateToken has just read
UpdateRoleBegin(p, uid, target, newRole, seq, limit) ==
  LET r == [op |-> "updateRole", uid |-> uid, gid |-> 0, rid |-> target,
            body |-> [role |-> newRole]]
  IN /\ Arrive(p, r, seq, limit)
     /\ RoleGate(p, r, SuperAdminRoles,
                 IF newRole \notin Roles THEN "urInvalid"
                 ELSE IF SelfDemotion(uid, users[uid].role, target, newRole)
                      THEN "urSelfDemotion"
                      ELSE "urUpdate")
     /\ UNCHANGED <<users, games, reviews, favorites, nextId>>

\* the two 400 answers of the handler
UpdateRoleRefuse(p) ==
  /\ pc[p] \in {"urInvalid", "urSelfDemotion"}
  /\ Reply(p, 400, IF pc[p] = "urInvalid" THEN MsgValidationFailed ELSE MsgCannotDemoteSelf)
  /\ UNCHANGED <<users, games, reviews, favorites, nextId, req, snap, started, limiter>>

\* User.findByIdAndUpdate(userId, { role })
UpdateRoleUpdate(p) ==
  /\ pc[p] = "urUpdate"
  /\ IF req[p].rid \in DOMAIN users /\ users[req[p].rid].exists
     THEN /\ users' = [users EXCEPT ![req[p].rid].role = req[p].body.role]
          /\ Reply(p, 200, MsgRoleUpdated)
     ELSE /\ Reply(p, 404, MsgUserNotFound)
          /\ UNCHANGED users
  /\ UNCHANGED <<games, reviews, favorites, nextId, req, snap, started, limiter>>

(* ----------------------- GET /api/games/:id (get) ----------------------- *)
\* optionalAuth lets every caller through; the handler starts
GetGameBegin(p, gid, seq, limit) ==
  LET r == [op |-> "getGame", uid |-> 0, gid |-> gid, rid |-> 0, body |-> NoBody]
  IN /\ Arrive(p, r, seq, limit)
     /\ pc' = [pc EXCEPT ![p] = "ggFind"]
     /\ loc' = [loc EXCEPT ![p] = NoLoc]
     /\ resp' = [resp EXCEPT ![p] = NoResp]
     /\ UNCHANGED <<users, games, reviews, favorites, nextId>>

\* the game document as the response carries it
GameRecord(g) ==
  [id |-> g, averageRating |-> games[g].averageRating,
   totalReviews |-> games[g].totalReviews]

\* GameService.getGameById, catch block: every error is rethrown with a prefix
GetGameError(m) == PrefixGetGame \o m

\* service: Game.findById(gameId); the controller answers 404 when the message
\* of the error it catches is exactly "Game not found"
GetGameFind(p) ==
  /\ pc[p] = "ggFind"
  /\ IF GameExists(req[p].gid)
     THEN /\ pc' = [pc EXCEPT ![p] = "sent"]
          /\ resp' = [resp EXCEPT ![p] = ResponseData(GameRecord(req[p].gid), <<>>)]
          /\ loc' = [loc EXCEPT ![p] = NoLoc]
     ELSE IF GetGameError(MsgGameNotFound) = MsgGameNotFound
          THEN Reply(p, 404, MsgGameNotFound)
          ELSE Reply(p, 500, MsgFailedToRetrieveGame)
  /\ UNCHANGED <<users, games, reviews, favorites, nextId, req, snap, started, limiter>>

(* ------------------- GET /api/reviews/:gameId (list) -------------------- *)
\* optionalAuth: req.user is the token's identity when that identity is
\* stored, and stays unset (0) without a token or for a removed identity
OptionalUser(uid) ==
  IF uid \in DOMAIN users /\ users[uid].exists THEN uid ELSE 0

ListReviewsBegin(p, uid, gid, seq, limit) ==
  LET r == [op |-> "listReviews", uid |-> OptionalUser(uid), gid |-> gid, rid |-> 0,
            body |-> NoBody]
  IN /\ Arrive(p, r, seq, limit)
     /\ pc' = [pc EXCEPT ![p] = "lrFindGame"]
     /\ loc' = [loc EXCEPT ![p] = NoLoc]
     /\ resp' = [resp EXCEPT ![p] = NoResp]
     /\ UNCHANGED <<users, games, reviews, favorites, nextId>>

\* controller: Game.findById(gameId)
ListReviewsFindGame(p) ==
  /\ pc[p] = "lrFindGame"
  /\ IF GameExists(req[p].gid)
     THEN Goto(p, IF req[p].uid # 0 THEN "lrFindOwn" ELSE "lrFindRest", loc[p])
     ELSE Reply(p, 404, MsgGameNotFound)
  /\ UNCHANGED <<users, games, reviews, favorites, nextId, req, snap, started, limiter>>

\* service: userReview = await Review.findOne({ gameId, userId })
ListReviewsFindOwn(p) ==
  /\ pc[p] = "lrFindOwn"
  /\ LET id == FindReviewOfPair(req[p].uid, req[p].gid)
     IN Goto(p, "lrFindRest",
             [loc[p] EXCEPT !.todo = IF id = 0 THEN <<>> ELSE <<ReviewById(id)>>])
  /\ UNCHANGED <<users, games, reviews, favorites, nextId, req, snap, started, limiter>>

RECURSIVE NewestFirst_OldestFirst(_)
\* fault: the sort is ascending
NewestFirst_OldestFirst(S) ==
  IF S = {} THEN <<>>
  ELSE LET r == CHOOSE x \in S : \A y \in S : x.id <= y.id
       IN <<r>> \o NewestFirst_OldestFirst(S \ {r})

RECURSIVE NewestFirst(_)
\* .sort({ createdAt: -1 }): documents are created in the order of their ids
NewestFirst(S) ==
  IF S = {} THEN <<>>
  ELSE LET r == CHOOSE x \in S : \A y \in S : x.id >= y.id
       IN <<r>> \o NewestFirst(S \ {r})

\* service: Review.find({ gameId, userId: { $ne: userId } }) for a signed-in
\* requester, Review.find({ gameId }) otherwise; the requester's review, when
\* there is one, is put in front
ListReviewsFindRest(p) ==
  /\ pc[p] = "lrFindRest"
  /\ LET rest == IF req[p].uid # 0
                 THEN {r \in ReviewsOfGame(req[p].gid) : r.userId # req[p].uid}
                 ELSE ReviewsOfGame(req[p].gid)
         all == loc[p].todo \o NewestFirst(rest)
     IN /\ pc' = [pc EXCEPT ![p] = "sent"]
        /\ resp' = [resp EXCEPT ![p] =
                      ResponseData([reviews |-> all, totalReviews |-> Len(all)], <<>>)]
        /\ loc' = [loc EXCEPT ![p] = NoLoc]
  /\ UNCHANGED <<users, games, reviews, favorites, nextId, req, snap, started, limiter>>

(* -------------------------- GET /api/games (list) ----------------------- *)
\* stored fields of a game that no modelled operation changes
Genre(g) == IF g % 2 = 1 THEN <<"m", "m", "o">> ELSE <<"r", "p", "g">>
LastUpdated(g) == g
ReleaseDate(g) == NumGames - g
\* the position of the game's title in alphabetical order
TitleRank(g) == CHOOSE i \in 1..Len(Titles) : Titles[i] = games[g].title

ListGamesBegin(p, category, sortBy, page, size, seq, limit) ==
  LET r == [op |-> "listGames", uid |-> 0, gid |-> 0, rid |-> 0,
            body |-> [category |-> category, sortBy |-> sortBy, page |-> page,
                      limit |-> size]]
  IN /\ Arrive(p, r, seq, limit)
     /\ pc' = [pc EXCEPT ![p] = "lgFind"]
     /\ loc' = [loc EXCEPT ![p] = NoLoc]
     /\ resp' = [resp EXCEPT ![p] = NoResp]
     /\ UNCHANGED <<users, games, reviews, favorites, nextId>>

\* filter.genre = new RegExp(category, "i") when a category is given
MatchingGames(category) ==
  {g \in Games : games[g].exists /\ (category # <<>> => Includes(Genre(g), category))}

\* fault: the rating sort has no second field
SortsBefore_RatingOnly(sortBy, a, b) ==
  CASE sortBy = "release-date" -> ReleaseDate(a) > ReleaseDate(b)
    [] sortBy = "alphabetical" ->
         TitleRank(a) < TitleRank(b) \/ (TitleRank(a) = TitleRank(b) /\ a < b)
    [] sortBy = "rating" ->
         \/ games[a].averageRating > games[b].averageRating
         \/ /\ games[a].averageRating = games[b].averageRating
            /\ a < b
    [] OTHER -> LastUpdated(a) > LastUpdated(b)

\* a comes before b under the sort object the switch builds for the sort key
\* ("relevance" and every other key: lastUpdated descending); documents the
\* sort does not separate stay in id order
SortsBefore(sortBy, a, b) ==
  CASE sortBy = "release-date" -> ReleaseDate(a) > ReleaseDate(b)
    [] sortBy = "alphabetical" ->
         TitleRank(a) < TitleRank(b) \/ (TitleRank(a) = TitleRank(b) /\ a < b)
    [] sortBy = "rating" ->
         \/ games[a].averageRating > games[b].averageRating
         \/ /\ games[a].averageRating = games[b].averageRating
            /\ games[a].totalReviews > games[b].totalReviews
         \/ /\ games[a].averageRating = games[b].averageRating
            /\ games[a].totalReviews = games[b].totalReviews
            /\ a < b
    [] OTHER -> LastUpdated(a) > LastUpdated(b)

RECURSIVE Sorted(_, _)
\* Game.find(filter).sort(sort)
Sorted(S, sortBy) ==
  IF S = {} THEN <<>>
  ELSE LET g == CHOOSE x \in S : \A y \in S \ {x} : SortsBefore(sortBy, x, y)
       IN <<g>> \o Sorted(S \ {g}, sortBy)

\* skip = (parseInt(page) - 1) * parseInt(limit)
Skip(page, size) == (page - 1) * size

\* safeLimit = Math.min(parseInt(limit), maxLimit)
SafeLimit(size) == IF size < MaxLimit THEN size ELSE MaxLimit

\* .skip(skip).limit(safeLimit) of a sorted result
PageOf(sorted, skip, safeLimit) ==
  SubSeq(sorted, skip + 1, IF skip + safeLimit < Len(sorted) THEN skip + safeLimit
                                                             ELSE Len(sorted))

\* fault: the division is rounded down
TotalPages_Floor(totalGames, safeLimit) == totalGames \div safeLimit

\* totalPages = Math.ceil(totalGames / safeLimit)
TotalPages(totalGames, safeLimit) == (totalGames + safeLimit - 1) \div safeLimit

\* the datastore rejects a find command whose skip is negative
SkipAccepted(skip) == skip >= 0

\* Promise.all, first query: Game.find(filter).sort(sort).skip(skip).limit(safeLimit);
\* a rejection is rethrown by the service and answered 500 by the controller
ListGamesFind(p) ==
  /\ pc[p] = "lgFind"
  /\ LET q == req[p].body
         page == PageOf(Sorted(MatchingGames(q.category), q.sortBy),
                        Skip(q.page, q.limit), SafeLimit(q.limit))
     IN IF SkipAccepted(Skip(q.page, q.limit))
        THEN Goto(p, "lgCount",
                  [loc[p] EXCEPT !.todo = [i \in 1..Len(page) |-> GameRecord(page[i])],
                                 !.skip = Skip(q.page, q.limit)])
        ELSE Reply(p, 500, MsgFailedToRetrieveGames)
  /\ UNCHANGED <<users, games, reviews, favorites, nextId, req, snap, started, limiter>>

\* Promise.all, second query: Game.countDocuments(filter); then the response
ListGamesCount(p) ==
  /\ pc[p] = "lgCount"
  /\ LET q == req[p].body
         totalGames == Cardinality(MatchingGames(q.category))
         totalPages == TotalPages(totalGames, SafeLimit(q.limit))
     IN /\ pc' = [pc EXCEPT ![p] = "sent"]
        /\ resp' = [resp EXCEPT ![p] =
                      ResponseData(loc[p].todo,
                                   [currentPage |-> q.page, totalPages |-> totalPages,
                                    totalGames |-> totalGames,
                                    gamesPerPage |-> SafeLimit(q.limit),
                                    hasNextPage |-> q.page < totalPages,
                                    hasPreviousPage |-> q.page > 1])]
        /\ loc' = [loc EXCEPT ![p] = NoLoc]
  /\ UNCHANGED <<users, games, reviews, favorites, nextId, req, snap, started, limiter>>

(* ------------------------ per-user rate limiting ------------------------ *)
\* the parameters callers of checkUserRateLimit pass: small limits, and the
\* default window or twice the default window
LimitChoices == {1, 2}
WindowChoices == {DefaultWindowMs, 2 * DefaultWindowMs}

\* requests.filter((timestamp) => timestamp > start)
RECURSIVE Newer(_, _)
Newer(ts, start) ==
  IF ts = <<>> THEN <<>>
  ELSE IF Head(ts) > start THEN <<Head(ts)>> \o Newer(Tail(ts), start)
  ELSE Newer(Tail(ts), start)

\* Map.prototype.set and Map.prototype.delete
MapSet(m, k, v) == [x \in DOMAIN m \cup {k} |-> IF x = k THEN v ELSE m[x]]
MapDelete(m, k) == [x \in DOMAIN m \ {k} |-> m[x]]

\* checkUserRateLimit(userId, maxRequests, windowMs) at the time of the clock
CheckUserRateLimit(userId) ==
  LET m == IF userId \in DOMAIN limiter.userRateLimit
           THEN limiter.userRateLimit
           ELSE MapSet(limiter.userRateLimit, userId, <<>>)
      validRequests == Newer(m[userId], limiter.now - limiter.windowMs)
      allowed == Len(validRequests) < limiter.maxRequests
  IN /\ Len(limiter.calls) < MaxCalls
     /\ limiter' = [limiter EXCEPT
          !.userRateLimit = IF allowed
                            THEN MapSet(m, userId, Append(validRequests, limiter.now))
                            ELSE m,
          !.calls = Append(@, [userId |-> userId, at |-> limiter.now,
                               allowed |-> allowed])]
     /\ UNCHANGED <<users, games, reviews, favorites, nextId, pc, req, loc, resp, snap,
                    started>>

RECURSIVE Cleaned(_, _, _)
\* the body of the cleanup callback, run at time t, applied to the entries ks
Cleaned(m, ks, t) ==
  IF ks = {} THEN m
  ELSE LET k == CHOOSE x \in ks : TRUE
           validRequests == Newer(m[k], t - CleanupWindowMs)
       IN Cleaned(IF validRequests = <<>> THEN MapDelete(m, k)
                  ELSE MapSet(m, k, validRequests),
                  ks \ {k}, t)

\* five minutes pass and the setInterval callback runs
Tick ==
  /\ limiter.now < MaxTicks * CleanupIntervalMs
  /\ limiter' = [limiter EXCEPT
       !.now = @ + CleanupIntervalMs,
       !.userRateLimit = Cleaned(@, DOMAIN @, limiter.now + CleanupIntervalMs)]
  /\ UNCHANGED <<users, games, reviews, favorites, nextId, pc, req, loc, resp, snap,
                 started>>

(* --------------------------- specifications ---------------------------- *)
\* review operations only, one request at a time
ReviewsNext ==
  \/ \E u \in Users, g \in GameIds, b \in Bodies : SubmitBegin(1, u, g, b, TRUE, 0)
  \/ \E u \in Users, i \in Ids, b \in Bodies : UpdateBegin(1, u, i, b, TRUE, 0)
  \/ \E u \in Users, i \in Ids : DeleteBegin(1, u, i, TRUE, 0)
  \/ SubmitFindGame(1)
  \/ SubmitFindReview(1)
  \/ SubmitSave(1)
  \/ UpdateFind(1)
  \/ UpdateSave(1)
  \/ DeleteFind(1)
  \/ DeleteDo(1)
  \/ RatingRead(1)
  \/ RatingWrite(1)
  \/ Close(1)

SpecReviews == Init /\ [][ReviewsNext]_vars

\* favorite requests only, one request at a time
FavoritesNext ==
  \/ \E u \in Users, g \in GameIds : AddFavoriteBegin(1, u, g, TRUE, 0)
  \/ \E u \in Users, g \in GameIds : RemoveFavoriteBegin(1, u, g, TRUE, 0)
  \/ RemoveFavoriteDo(1)
  \/ AddFavoriteFindGame(1)
  \/ AddFavoriteFind(1)
  \/ AddFavoriteSave(1)
  \/ Close(1)

SpecFavorites == Init /\ [][FavoritesNext]_vars

\* reviews, favorites, avatars and the two cascading deletions, one request
\* at a time
CascadeNext ==
  \/ \E u \in Users, g \in GameIds, b \in Bodies : SubmitBegin(1, u, g, b, TRUE, MaxSeqRequests)
  \/ \E u \in Users, g \in GameIds : AddFavoriteBegin(1, u, g, TRUE, MaxSeqRequests)
  \/ \E u \in Users, f \in BOOLEAN : UploadAvatarBegin(1, u, f, TRUE, MaxSeqRequests)
  \/ \E u \in Users : DeleteAccountBegin(1, u, TRUE, MaxSeqRequests)
  \/ \E u \in Users, g \in GameIds : AdminDeleteGameBegin(1, u, g, TRUE, MaxSeqRequests)
  \/ SubmitFindGame(1)
  \/ SubmitFindReview(1)
  \/ SubmitSave(1)
  \/ RatingRead(1)
  \/ RatingWrite(1)
  \/ AddFavoriteFindGame(1)
  \/ AddFavoriteFind(1)
  \/ AddFavoriteSave(1)
  \/ UploadAvatarUpdate(1)
  \/ DeleteAccountFindUser(1)
  \/ DeleteAccountFindReviews(1)
  \/ DeleteAccountReadOthers(1)
  \/ DeleteAccountWriteGame(1)
  \/ DeleteAccountReviews(1)
  \/ DeleteAccountFavorites(1)
  \/ DeleteAccountUser(1)
  \/ AdminDeleteGameFind(1)
  \/ AdminDeleteGameReviews(1)
  \/ AdminDeleteGameDelete(1)
  \/ Close(1)

SpecCascade == Init /\ [][CascadeNext]_vars

\* review and favorite requests handled concurrently by the worker pool
Next ==
  \/ \E p \in Procs, u \in Users, g \in GameIds, b \in Bodies :
       SubmitBegin(p, u, g, b, FALSE, MaxRequests)
  \/ \E p \in Procs, u \in Users, i \in Ids, b \in Bodies :
       UpdateBegin(p, u, i, b, FALSE, MaxRequests)
  \/ \E p \in Procs, u \in Users, i \in Ids : DeleteBegin(p, u, i, FALSE, MaxRequests)
  \/ \E p \in Procs, u \in Users, g \in GameIds : AddFavoriteBegin(p, u, g, FALSE, MaxRequests)
  \/ \E p \in Procs : SubmitFindGame(p)
  \/ \E p \in Procs : SubmitFindReview(p)
  \/ \E p \in Procs : SubmitSave(p)
  \/ \E p \in Procs : UpdateFind(p)
  \/ \E p \in Procs : UpdateSave(p)
  \/ \E p \in Procs : DeleteFind(p)
  \/ \E p \in Procs : DeleteDo(p)
  \/ \E p \in Procs : RatingRead(p)
  \/ \E p \in Procs : RatingWrite(p)
  \/ \E p \in Procs : AddFavoriteFindGame(p)
  \/ \E p \in Procs : AddFavoriteFind(p)
  \/ \E p \in Procs : AddFavoriteSave(p)
  \/ \E p \in Procs : Close(p)

Spec == Init /\ [][Next]_vars

\* a datastore in which every identity has submitted one review of game 1, one
\* request after the other: the stored aggregate is the one the last submit
\* wrote
InitModeration ==
  /\ users = [u \in Reviewers |-> [exists |-> TRUE, role |-> InitRole(u), avatar |-> FALSE,
                                   username |-> NoUsername]]
  /\ \E rt \in [Reviewers -> InitRatings] :
       /\ reviews = {[id |-> u, userId |-> u, gameId |-> 1, rating |-> rt[u],
                      content |-> <<"a">>] : u \in Reviewers}
       /\ games = [g \in Games |->
                    IF g = 1
                    THEN [exists |-> TRUE, title |-> InitTitle(g),
                          averageRating |->
                            Round2(SumRatings({[id |-> u, rating |-> rt[u]] : u \in Reviewers}),
                                   NumReviewers),
                          totalReviews |-> NumReviewers]
                    ELSE [exists |-> TRUE, title |-> InitTitle(g),
                          averageRating |-> 0, totalReviews |-> 0]]
  /\ favorites = {}
  /\ nextId = NumReviewers + 1
  /\ pc = [p \in Procs |-> "idle"]
  /\ req = [p \in Procs |-> NoReq]
  /\ loc = [p \in Procs |-> NoLoc]
  /\ resp = [p \in Procs |-> NoResp]
  /\ snap = NoSnap
  /\ started = 0
  /\ limiter = NoLimiter

\* moderation deletes, account deletions and the owners' own updates and
\* deletes on that datastore, one request at a time
ModerationNext ==
  \/ \E u \in Reviewers, i \in ReviewIds : AdminDeleteReviewBegin(1, u, i, TRUE, MaxModRequests)
  \/ \E u \in Reviewers : DeleteAccountBegin(1, u, TRUE, MaxModRequests)
  \/ \E u \in Reviewers, i \in ReviewIds : DeleteBegin(1, u, i, TRUE, MaxModRequests)
  \/ \E u \in Reviewers, i \in ReviewIds, b \in Bodies :
       UpdateBegin(1, u, i, b, TRUE, MaxModRequests)
  \/ AdminDeleteReviewFind(1)
  \/ AdminDeleteReviewDelete(1)
  \/ AdminDeleteReviewRead(1)
  \/ AdminDeleteReviewWrite(1)
  \/ DeleteAccountFindUser(1)
  \/ DeleteAccountFindReviews(1)
  \/ DeleteAccountReadOthers(1)
  \/ DeleteAccountWriteGame(1)
  \/ DeleteAccountReviews(1)
  \/ DeleteAccountFavorites(1)
  \/ DeleteAccountUser(1)
  \/ UpdateFind(1)
  \/ UpdateSave(1)
  \/ DeleteFind(1)
  \/ DeleteDo(1)
  \/ RatingRead(1)
  \/ RatingWrite(1)
  \/ Close(1)

SpecModeration == InitModeration /\ [][ModerationNext]_vars

\* moderation deletes and recomputes on the datastore with four reviews, one
\* request at a time
RecomputeNext ==
  \/ \E u \in Reviewers, i \in ReviewIds : AdminDeleteReviewBegin(1, u, i, TRUE, MaxSeqRequests)
  \/ \E g \in GameIds : RecomputeBegin(1, g, TRUE, MaxSeqRequests)
  \/ AdminDeleteReviewFind(1)
  \/ AdminDeleteReviewDelete(1)
  \/ AdminDeleteReviewRead(1)
  \/ AdminDeleteReviewWrite(1)
  \/ RatingRead(1)
  \/ RatingWrite(1)
  \/ Close(1)

SpecRecompute == InitModeration /\ [][RecomputeNext]_vars

\* review operations in which the rating recompute may fail, one request at
\* a time
FaultsNext ==
  \/ \E u \in Users, g \in GameIds, b \in Bodies : SubmitBegin(1, u, g, b, TRUE, MaxSeqRequests)
  \/ \E u \in Users, i \in Ids, b \in Bodies : UpdateBegin(1, u, i, b, TRUE, MaxSeqRequests)
  \/ \E u \in Users, i \in Ids : DeleteBegin(1, u, i, TRUE, MaxSeqRequests)
  \/ SubmitFindGame(1)
  \/ SubmitFindReview(1)
  \/ SubmitSave(1)
  \/ UpdateFind(1)
  \/ UpdateSave(1)
  \/ DeleteFind(1)
  \/ DeleteDo(1)
  \/ RatingRead(1)
  \/ RatingWrite(1)
  \/ RatingFail(1)
  \/ Close(1)

SpecFaults == Init /\ [][FaultsNext]_vars

\* submits and updates with well-formed and malformed bodies, one request at
\* a time
ValidationNext ==
  \/ \E u \in Users, g \in GameIds, b \in Bodies \cup InvalidBodies :
       SubmitBegin(1, u, g, b, TRUE, MaxSeqRequests)
  \/ \E u \in Users, i \in Ids, b \in Bodies \cup InvalidBodies :
       UpdateBegin(1, u, i, b, TRUE, MaxSeqRequests)
  \/ SubmitFindGame(1)
  \/ SubmitFindReview(1)
  \/ SubmitSave(1)
  \/ UpdateFind(1)
  \/ UpdateSave(1)
  \/ RatingRead(1)
  \/ RatingWrite(1)
  \/ Close(1)

SpecValidation == Init /\ [][ValidationNext]_vars

\* the catalog listing and the read by id, with the submits and admin deletions that change
\* it, one request at a time
GamesNext ==
  \/ \E g \in GameIds : GetGameBegin(1, g, TRUE, MaxSeqRequests)
  \/ \E c \in Categories, k \in SortKeys, n \in Pages, l \in PageSizes :
       ListGamesBegin(1, c, k, n, l, TRUE, MaxSeqRequests)
  \/ ListGamesFind(1)
  \/ ListGamesCount(1)
  \/ \E u \in Users, g \in GameIds, b \in Bodies : SubmitBegin(1, u, g, b, TRUE, MaxSeqRequests)
  \/ \E u \in Users, g \in GameIds : AdminDeleteGameBegin(1, u, g, TRUE, MaxSeqRequests)
  \/ GetGameFind(1)
  \/ SubmitFindGame(1)
  \/ SubmitFindReview(1)
  \/ SubmitSave(1)
  \/ RatingRead(1)
  \/ RatingWrite(1)
  \/ AdminDeleteGameFind(1)
  \/ AdminDeleteGameReviews(1)
  \/ AdminDeleteGameDelete(1)
  \/ Close(1)

SpecGames == Init /\ [][GamesNext]_vars

\* the catalog listing between review submits, one request at a time
CatalogNext ==
  \/ \E c \in Categories, k \in SortKeys, n \in Pages, l \in PageSizes :
       ListGamesBegin(1, c, k, n, l, TRUE, MaxCatalogRequests)
  \/ ListGamesFind(1)
  \/ ListGamesCount(1)
  \/ \E u \in Users, g \in GameIds, b \in Bodies :
       SubmitBegin(1, u, g, b, TRUE, MaxCatalogRequests)
  \/ SubmitFindGame(1)
  \/ SubmitFindReview(1)
  \/ SubmitSave(1)
  \/ RatingRead(1)
  \/ RatingWrite(1)
  \/ Close(1)

SpecCatalog == Init /\ [][CatalogNext]_vars

\* review lists of the datastore with four reviews, with the owners' deletes,
\* one request at a time
ReviewListNext ==
  \/ \E u \in 0..NumReviewers, g \in GameIds : ListReviewsBegin(1, u, g, TRUE, MaxModRequests)
  \/ \E u \in Reviewers, i \in ReviewIds : DeleteBegin(1, u, i, TRUE, MaxModRequests)
  \/ ListReviewsFindGame(1)
  \/ ListReviewsFindOwn(1)
  \/ ListReviewsFindRest(1)
  \/ DeleteFind(1)
  \/ DeleteDo(1)
  \/ RatingRead(1)
  \/ RatingWrite(1)
  \/ Close(1)

SpecReviewList == InitModeration /\ [][ReviewListNext]_vars

\* a datastore in which the last identity has submitted one review, of game 1
InitAccountRace ==
  /\ users = [u \in Users |-> [exists |-> TRUE, role |-> InitRole(u), avatar |-> FALSE,
                               username |-> NoUsername]]
  /\ \E rt \in InitRatings :
       /\ reviews = {[id |-> 1, userId |-> NumUsers, gameId |-> 1, rating |-> rt,
                      content |-> <<"a">>]}
       /\ games = [g \in Games |->
                    [exists |-> TRUE, title |-> InitTitle(g),
                     averageRating |-> IF g = 1 THEN Round2(rt, 1) ELSE 0,
                     totalReviews |-> IF g = 1 THEN 1 ELSE 0]]
  /\ favorites = {}
  /\ nextId = 2
  /\ pc = [p \in Procs |-> "idle"]
  /\ req = [p \in Procs |-> NoReq]
  /\ loc = [p \in Procs |-> NoLoc]
  /\ resp = [p \in Procs |-> NoResp]
  /\ snap = NoSnap
  /\ started = 0
  /\ limiter = NoLimiter

\* account deletions, review submits and add-favorites handled concurrently
\* by the worker pool
AccountRaceNext ==
  \/ \E p \in Procs, u \in Users : DeleteAccountBegin(p, u, FALSE, MaxRequests)
  \/ \E p \in Procs, u \in Users, g \in GameIds, b \in Bodies :
       SubmitBegin(p, u, g, b, FALSE, MaxRequests)
  \/ \E p \in Procs, u \in Users, g \in GameIds : AddFavoriteBegin(p, u, g, FALSE, MaxRequests)
  \/ \E p \in Procs : DeleteAccountFindUser(p)
  \/ \E p \in Procs : DeleteAccountFindReviews(p)
  \/ \E p \in Procs : DeleteAccountReadOthers(p)
  \/ \E p \in Procs : DeleteAccountWriteGame(p)
  \/ \E p \in Procs : DeleteAccountReviews(p)
  \/ \E p \in Procs : DeleteAccountFavorites(p)
  \/ \E p \in Procs : DeleteAccountUser(p)
  \/ \E p \in Procs : SubmitFindGame(p)
  \/ \E p \in Procs : SubmitFindReview(p)
  \/ \E p \in Procs : SubmitSave(p)
  \/ \E p \in Procs : RatingRead(p)
  \/ \E p \in Procs : RatingWrite(p)
  \/ \E p \in Procs : AddFavoriteFindGame(p)
  \/ \E p \in Procs : AddFavoriteFind(p)
  \/ \E p \in Procs : AddFavoriteSave(p)
  \/ \E p \in Procs : Close(p)

SpecAccountRace == InitAccountRace /\ [][AccountRaceNext]_vars

\* the rate limiter called by one caller, with the parameters that caller
\* passes on every call
InitRateLimit ==
  /\ users = [u \in Users |-> [exists |-> TRUE, role |-> InitRole(u), avatar |-> FALSE,
                               username |-> NoUsername]]
  /\ games = [g \in Games |-> [exists |-> TRUE, title |-> InitTitle(g),
                               averageRating |-> 0, totalReviews |-> 0]]
  /\ reviews = {}
  /\ favorites = {}
  /\ nextId = 1
  /\ pc = [p \in Procs |-> "idle"]
  /\ req = [p \in Procs |-> NoReq]
  /\ loc = [p \in Procs |-> NoLoc]
  /\ resp = [p \in Procs |-> NoResp]
  /\ snap = NoSnap
  /\ started = 0
  /\ \E n \in LimitChoices, w \in WindowChoices :
       limiter = [NoLimiter EXCEPT !.maxRequests = n, !.windowMs = w]

RateLimitNext ==
  \/ \E u \in Users : CheckUserRateLimit(u)
  \/ Tick

SpecRateLimit == InitRateLimit /\ [][RateLimitNext]_vars

\* profile and username updates by any identity, one request at a time
UsernamesNext ==
  \/ \E u \in Users, n \in Handles : UpdateProfileBegin(1, u, n, TRUE, MaxSeqRequests)
  \/ \E u \in Users, n \in Handles : UpdateUsernameBegin(1, u, n, TRUE, MaxSeqRequests)
  \/ UpdateProfileFind(1)
  \/ UpdateProfileSave(1)
  \/ UpdateUsernameFind(1)
  \/ UpdateUsernameSave(1)
  \/ Close(1)

SpecUsernames == Init /\ [][UsernamesNext]_vars

\* the role-gated routes and account deletion on the datastore with four
\* reviews, with and without a credential, one request at a time
RolesNext ==
  \/ \E u \in 0..NumReviewers, b \in GameBodies :
       AdminCreateGameBegin(1, u, b, TRUE, MaxModRequests)
  \/ \E u \in 0..NumReviewers, g \in GameIds, b \in GameBodies :
       AdminEditGameBegin(1, u, g, b, TRUE, MaxModRequests)
  \/ \E u \in 0..NumReviewers, g \in GameIds : AdminDeleteGameBegin(1, u, g, TRUE, MaxModRequests)
  \/ \E u \in 0..NumReviewers, i \in ReviewIds :
       AdminDeleteReviewBegin(1, u, i, TRUE, MaxModRequests)
  \/ \E u \in 0..NumReviewers : ListUsersBegin(1, u, TRUE, MaxModRequests)
  \/ \E u \in 0..NumReviewers, t \in Reviewers, r \in RequestedRoles :
       UpdateRoleBegin(1, u, t, r, TRUE, MaxModRequests)
  \/ \E u \in Reviewers : DeleteAccountBegin(1, u, TRUE, MaxModRequests)
  \/ AdminCreateGameInvalid(1)
  \/ AdminCreateGameSave(1)
  \/ AdminCreateGameReject(1)
  \/ AdminEditGameInvalid(1)
  \/ AdminEditGameUpdate(1)
  \/ AdminDeleteGameFind(1)
  \/ AdminDeleteGameReviews(1)
  \/ AdminDeleteGameDelete(1)
  \/ AdminDeleteReviewFind(1)
  \/ AdminDeleteReviewDelete(1)
  \/ AdminDeleteReviewRead(1)
  \/ AdminDeleteReviewWrite(1)
  \/ ListUsersFind(1)
  \/ UpdateRoleRefuse(1)
  \/ UpdateRoleUpdate(1)
  \/ DeleteAccountFindUser(1)
  \/ DeleteAccountFindReviews(1)
  \/ DeleteAccountReadOthers(1)
  \/ DeleteAccountWriteGame(1)
  \/ DeleteAccountReviews(1)
  \/ DeleteAccountFavorites(1)
  \/ DeleteAccountUser(1)
  \/ Close(1)

SpecRoles == InitModeration /\ [][RolesNext]_vars

\* role updates handled concurrently by the worker pool
RoleRaceNext ==
  \/ \E p \in Procs, u \in Users, t \in Users, r \in RequestedRoles :
       UpdateRoleBegin(p, u, t, r, FALSE, MaxRoleRequests)
  \/ \E p \in Procs : UpdateRoleRefuse(p)
  \/ \E p \in Procs : UpdateRoleUpdate(p)
  \/ \E p \in Procs : Close(p)

SpecRoleRace == Init /\ [][RoleRaceNext]_vars

(* ============================== claims ================================= *)
\* no request is between its first datastore call and its response
Settled == \A p \in Procs : pc[p] \in {"idle", "sent"}

\* the reviews a collection value rs stores for game g, and their rating sum
StoredFor(rs, g) == {r \in rs : r.gameId = g}

RECURSIVE RatingSum(_)
RatingSum(S) ==
  IF S = {} THEN 0
  ELSE LET r == CHOOSE x \in S : TRUE IN r.rating + RatingSum(S \ {r})

\* a (in hundredths) is sum / n rounded to the nearest multiple of unit
\* hundredths: unit 1 is two decimals, unit 10 is one decimal
IsRoundedMean(a, sum, n, unit) ==
  /\ a % unit = 0
  /\ 2 * (a * n - 100 * sum) <= unit * n
  /\ 2 * (100 * sum - a * n) <= unit * n

\* the record of game g is the two-decimal aggregate of the reviews rs
AggregateMatches(gs, rs, g) ==
  LET S == StoredFor(rs, g)
      n == Cardinality(S)
  IN /\ gs[g].totalReviews = n
     /\ IF n = 0 THEN gs[g].averageRating = 0
        ELSE IsRoundedMean(gs[g].averageRating, RatingSum(S), n, 1)

\* the request of worker 1 has been answered and began with the user signed in
Answered(op) ==
  /\ pc[1] = "sent"
  /\ req[1].op = op
  /\ snap.taken
  /\ snap.users[req[1].uid].exists

\* C1: when review requests do not overlap, after each submit, update by id
\* or owner delete has completed every game's totalReviews is the number of
\* its stored reviews and its averageRating their mean rounded to two
\* decimals (0 without reviews).
C1_AggregateAfterReviewOps ==
  Settled => \A g \in Games : games[g].exists => AggregateMatches(games, reviews, g)

\* C1 witness: from {5, 1}, a second identity's rating 3 gave {4, 2}
C1_Witness ==
  /\ Answered("submit")
  /\ resp[1].status = 200
  /\ req[1].body.rating = 3
  /\ \E g \in Games :
       /\ req[1].gid = g
       /\ snap.games[g].averageRating = 500 /\ snap.games[g].totalReviews = 1
       /\ games[g].averageRating = 400 /\ games[g].totalReviews = 2

\* C2: once all concurrent review mutations on a game have completed, the
\* game's stored averageRating and totalReviews are the aggregate of the
\* final review set, whatever the interleaving was.
C2_FinalAggregateUnderRaces ==
  Settled => \A g \in Games : AggregateMatches(games, reviews, g)

\* C3: in every reachable state each (identity, game) pair has at most one
\* stored review and at most one stored favorite, also when two requests
\* for the pair both passed their existence check before either inserted.
C3_OnePerPair ==
  \A u \in Users, g \in Games :
    /\ Cardinality({r \in reviews : r.userId = u /\ r.gameId = g}) <= 1
    /\ Cardinality({f \in favorites : f.userId = u /\ f.gameId = g}) <= 1

\* C3 witness: a submit lost the insert race (duplicate key) and its pair
\* has exactly one stored review
C3_Witness ==
  \E p \in Procs :
    /\ pc[p] = "sent"
    /\ req[p].op = "submit"
    /\ Includes(resp[p].body, <<"duplicate", "key">>)
    /\ Cardinality({r \in reviews : r.userId = req[p].uid /\ r.gameId = req[p].gid}) = 1

\* the review of the answered request's (identity, game) pair before it began
ReviewBefore == {r \in snap.reviews : r.userId = req[1].uid /\ r.gameId = req[1].gid}
ReviewAfter == {r \in reviews : r.userId = req[1].uid /\ r.gameId = req[1].gid}

\* a well-formed submit for an existing game by an identity with a review for it
Resubmitted ==
  /\ Answered("submit")
  /\ req[1].body.rating \in 1..5
  /\ req[1].gid \in Games
  /\ ReviewBefore # {}

ForeignTarget(p, r) ==
  /\ req[p].op \in {"update", "delete"}
  /\ req[p].rid = r.id
  /\ req[p].uid # r.userId

\* C6: no step of an update-by-id or delete-by-id request made by an identity
\* that does not own the named review changes or removes that review or
\* changes any game's aggregate, whatever the requester's role.
C6_NonOwnerChangesNothing ==
  [][\A p \in Procs : \A r \in reviews :
       (ForeignTarget(p, r) /\ pc'[p] # pc[p]) => (r \in reviews' /\ games' = games)]_vars

\* C6 witness: an admin's request on another identity's stored review has
\* been answered and the review is still stored
C6_Witness ==
  \E p \in Procs : \E r \in reviews :
    /\ ForeignTarget(p, r)
    /\ pc[p] = "sent"
    /\ users[req[p].uid].role \in {"admin", "superadmin"}

\* the answered request named a review that another identity owned, in a
\* well-formed request
ForeignAnswered(op) ==
  /\ Answered(op)
  /\ \E r \in snap.reviews : r.id = req[1].rid /\ r.userId # req[1].uid
  /\ op = "update" => req[1].body.rating \in 1..5

\* C7: an update or delete of an existing review by an authenticated
\* identity that does not own it is answered 403 with an error containing
\* "not authorized".
C7_NonOwnerGets403 ==
  (ForeignAnswered("update") \/ ForeignAnswered("delete")) =>
    /\ resp[1].status = 403
    /\ Includes(resp[1].body, <<"not", "authorized">>)

\* the games identity u had reviewed before the answered request began
ReviewedBy(u) == {r.gameId : r \in {x \in snap.reviews : x.userId = u}}

\* C8: a non-overlapping account deletion of a signed-in identity removes
\* the identity, its reviews and its favorites, leaves the reviews and
\* favorites of the others as they were, and leaves every game it had
\* reviewed with the aggregate of the remaining reviews, with or without an
\* avatar.
C8_AccountDeletionCascades ==
  Answered("deleteAccount") =>
    LET a == req[1].uid
    IN /\ ~users[a].exists
       /\ reviews = {r \in snap.reviews : r.userId # a}
       /\ favorites = {f \in snap.favorites : f.userId # a}
       /\ \A g \in ReviewedBy(a) : games[g].exists => AggregateMatches(games, reviews, g)

\* C9: every stored review and every stored favorite references a live game.
C9_ReferencesLiveGames ==
  /\ \A r \in reviews : r.gameId \in Games /\ games[r.gameId].exists
  /\ \A f \in favorites : f.gameId \in Games /\ games[f.gameId].exists

\* the favorites of the answered request's (identity, game) pair
FavoriteBefore == {f \in snap.favorites : f.userId = req[1].uid /\ f.gameId = req[1].gid}
FavoriteAfter == {f \in favorites : f.userId = req[1].uid /\ f.gameId = req[1].gid}

C11_RemoveFavoriteOutcomes ==
  Answered("removeFav") =>
    /\ FavoriteBefore = {} =>
         /\ resp[1].status = 404
         /\ Includes(resp[1].body, <<"not", "found", "in", "favorites">>)
         /\ favorites = snap.favorites
    /\ FavoriteBefore # {} =>
         /\ resp[1].status = 200
         /\ favorites = snap.favorites \ FavoriteBefore
         /\ ~CheckFavoriteStatus(req[1].uid, req[1].gid)

\* C11 witness: a stored pair was removed while favorites of another game and
\* of another identity stayed
C11_Witness ==
  /\ Answered("removeFav")
  /\ resp[1].status = 200
  /\ \E f \in favorites : f.userId = req[1].uid /\ f.gameId # req[1].gid
  /\ \E f \in favorites : f.userId # req[1].uid /\ f.gameId = req[1].gid

\* the review the answered moderation request named, as stored before it
ModeratedBefore == {r \in snap.reviews : r.id = req[1].rid}

\* C12: a moderation delete by an identity of role user is refused and changes
\* nothing; by an admin or superadmin it answers 404 and changes nothing when
\* the review does not exist, and otherwise removes exactly the named review,
\* whoever wrote it, and leaves its game with totalReviews equal to the number
\* of remaining reviews and averageRating their rounded mean (0 if none).
C12_ModerationDelete ==
  Answered("adminDeleteReview") =>
    LET admin == snap.users[req[1].uid].role \in {"admin", "superadmin"}
    IN /\ ~admin =>
            /\ resp[1].status = 403
            /\ reviews = snap.reviews /\ games = snap.games
       /\ (admin /\ ModeratedBefore = {}) =>
            /\ resp[1].status = 404
            /\ Includes(resp[1].body, <<"not", "found">>)
            /\ reviews = snap.reviews /\ games = snap.games
       /\ (admin /\ ModeratedBefore # {}) =>
            /\ resp[1].status = 200
            /\ reviews = snap.reviews \ ModeratedBefore
            /\ \A r \in ModeratedBefore :
                 LET S == StoredFor(reviews, r.gameId)
                     n == Cardinality(S)
                 IN /\ games[r.gameId].totalReviews = n
                    /\ IF n = 0 THEN games[r.gameId].averageRating = 0
                       ELSE IsRoundedMean(games[r.gameId].averageRating, RatingSum(S), n, 10)
                    /\ \A g \in Games : g # r.gameId => games[g] = snap.games[g]

\* C12 witness: an admin removed another identity's review and the game's
\* count went down by one
C12_Witness ==
  /\ Answered("adminDeleteReview")
  /\ resp[1].status = 200
  /\ \E r \in ModeratedBefore :
       /\ r.userId # req[1].uid
       /\ games[r.gameId].totalReviews = snap.games[r.gameId].totalReviews - 1
       /\ games[r.gameId].totalReviews > 0

\* the games whose review set the answered request changed
TouchedGames == {g \in Games : StoredFor(reviews, g) # StoredFor(snap.reviews, g)}

\* C13: the average stored after a moderation delete or an account deletion
\* is the value the submit, update and owner delete path stores for the same
\* remaining reviews: their mean rounded to two decimals.
C13_OnePrecisionEverywhere ==
  \A op \in {"update", "delete", "adminDeleteReview", "deleteAccount"} :
    (Answered(op) /\ resp[1].status = 200) =>
      \A g \in TouchedGames : AggregateMatches(games, reviews, g)

\* the answered request is a recompute of a game
Recomputed ==
  /\ pc[1] = "sent"
  /\ req[1].op = "recompute"
  /\ snap.taken

\* C14: a recompute changes no review and no other game's record, and a
\* recompute that directly follows a recompute of the same game, with no
\* request in between, leaves the game's averageRating and totalReviews as
\* the first one wrote them.
C14_RecomputeIdempotent ==
  Recomputed =>
    /\ reviews = snap.reviews
    /\ \A g \in Games : g # req[1].gid => games[g] = snap.games[g]
    /\ snap.recomputed = req[1].gid => games = snap.games

\* C14 witness: the second of two recomputes in a row, after the first one
\* had corrected a one-decimal average to 4.33
C14_Witness ==
  /\ Recomputed
  /\ snap.recomputed = req[1].gid
  /\ req[1].gid \in Games
  /\ games[req[1].gid].averageRating = 433
  /\ games[req[1].gid].totalReviews = 3

\* the answered request wrote its review and its rating recompute then failed
RecomputeFailedAfterWrite(op) ==
  /\ Answered(op)
  /\ loc[1].caught # <<>>

\* the review write of the answered request is stored
WriteCommitted ==
  CASE req[1].op = "submit" ->
         \E r \in ReviewAfter : r.rating = req[1].body.rating /\ r.content = req[1].body.content
    [] req[1].op = "update" ->
         \E r \in reviews : /\ r.id = req[1].rid
                            /\ r.rating = req[1].body.rating
                            /\ r.content = req[1].body.content
    [] OTHER -> \A r \in reviews : r.id # req[1].rid

\* C15: when the rating recompute fails after the review write of a submit,
\* an update by id or a delete succeeded, the request is still answered with
\* success and the review write stays stored.
C15_SuccessDespiteRecomputeFailure ==
  \A op \in {"submit", "update", "delete"} :
    RecomputeFailedAfterWrite(op) => (resp[1].status = 200 /\ WriteCommitted)

\* worker p is about to insert a document for a pair that another request
\* has stored since p's existence check
LosesInsertRace(p) ==
  \/ /\ pc[p] = "save"
     /\ loc[p].review = 0
     /\ \E r \in reviews : r.userId = req[p].uid /\ r.gameId = req[p].gid
  \/ /\ pc[p] = "favSave"
     /\ \E f \in favorites : f.userId = req[p].uid /\ f.gameId = req[p].gid

\* C16: the request that loses the insert race of a duplicate review submit
\* or a duplicate add-favorite is answered 400 with the "already" conflict
\* error, never 500.
C16_RaceLoserGetsConflict ==
  [][\A p \in Procs :
       (LosesInsertRace(p) /\ pc'[p] = "sent") =>
         (resp'[p].status = 400 /\ Includes(resp'[p].body, <<"already">>))]_vars

\* the body of the answered request breaks a rule: its rating is outside 1..5
\* or its content, trimmed, has no character or more than 1000
Malformed ==
  \/ req[1].body.rating \notin 1..5
  \/ Len(req[1].body.content) < 1
  \/ Len(req[1].body.content) > 1000

\* C17: a submit or update with a malformed body is answered 400 "Validation
\* failed", a well-formed submit for an id that names no game is answered 404,
\* and in both cases no review and no game aggregate changes.
C17_RejectedBeforeMutation ==
  /\ \A op \in {"submit", "update"} :
       (Answered(op) /\ Malformed) =>
         /\ resp[1].status = 400
         /\ resp[1].body = <<"Validation", "failed">>
         /\ reviews = snap.reviews /\ games = snap.games
  /\ (Answered("submit") /\ ~Malformed
        /\ ~(req[1].gid \in Games /\ snap.games[req[1].gid].exists)) =>
         /\ resp[1].status = 404
         /\ Includes(resp[1].body, <<"not", "found">>)
         /\ reviews = snap.reviews /\ games = snap.games

\* C17 witness: the owner's update of a stored review with content of 1001
\* characters has been answered
C17_Witness ==
  /\ Answered("update")
  /\ Len(req[1].body.content) = 1001
  /\ \E r \in reviews : r.id = req[1].rid /\ r.userId = req[1].uid

\* the answered request read one game by id
GameRead ==
  /\ pc[1] = "sent"
  /\ req[1].op = "getGame"
  /\ snap.taken

\* C18: get game by id answers 200 with the stored record of the game when
\* the game exists, and 404 with an error containing "not found" when no game
\* has the id.
C18_GetGameByIdOutcomes ==
  GameRead =>
    IF req[1].gid \in Games /\ snap.games[req[1].gid].exists
    THEN /\ resp[1].status = 200
         /\ resp[1].data.id = req[1].gid
         /\ resp[1].data.averageRating = snap.games[req[1].gid].averageRating
         /\ resp[1].data.totalReviews = snap.games[req[1].gid].totalReviews
    ELSE /\ resp[1].status = 404
         /\ Includes(resp[1].body, <<"not", "found">>)

\* the answered request listed the reviews of an existing game
Listed ==
  /\ pc[1] = "sent"
  /\ req[1].op = "listReviews"
  /\ snap.taken
  /\ resp[1].status = 200

\* the positions from..Len(d) of d hold reviews from the newest to the oldest
Descending(d, from) ==
  \A i, j \in from..Len(d) : i < j => d[i].id > d[j].id

\* C19: the list of a game's reviews holds every stored review of the game
\* exactly once; the requester's own review, when there is one, comes first
\* and the others follow newest first; without one the whole list is newest
\* first.
C19_ReviewListOrder ==
  Listed =>
    LET d == resp[1].data.reviews
        S == StoredFor(snap.reviews, req[1].gid)
        own == {r \in S : r.userId = req[1].uid}
    IN /\ Len(d) = Cardinality(S)
       /\ {d[i] : i \in 1..Len(d)} = S
       /\ IF own # {}
          THEN d[1] \in own /\ Descending(d, 2)
          ELSE Descending(d, 1)

\* C19 witness: the author of the oldest of four reviews lists them and finds
\* the own review first
C19_Witness ==
  /\ Listed
  /\ Len(resp[1].data.reviews) = 4
  /\ resp[1].data.reviews[1].userId = req[1].uid
  /\ \A r \in snap.reviews : resp[1].data.reviews[1].id <= r.id

\* the answered request listed a page of the catalog
Catalogued ==
  /\ pc[1] = "sent"
  /\ req[1].op = "listGames"
  /\ snap.taken
  /\ resp[1].status = 200

\* the stored games the category filter of the answered request matches
FilterMatches ==
  {g \in Games : /\ snap.games[g].exists
                 /\ \/ req[1].body.category = <<>>
                    \/ Includes(Genre(g), req[1].body.category)}

\* C20: the catalog listing reports as totalGames the number of games the
\* filter matches, whatever the page, and as totalPages that number divided
\* by the page size, rounded up; a page beyond totalPages is empty and has
\* hasNextPage false and, when it is not page 1, hasPreviousPage true.
C20_PageBeyondLast ==
  Catalogued =>
    LET pg == resp[1].pagination
    IN /\ pg.totalGames = Cardinality(FilterMatches)
       /\ pg.totalPages * pg.gamesPerPage >= pg.totalGames
       /\ (pg.totalPages - 1) * pg.gamesPerPage < pg.totalGames
       /\ pg.totalPages >= 0
       /\ req[1].body.page > pg.totalPages =>
            /\ resp[1].data = <<>>
            /\ ~pg.hasNextPage
            /\ req[1].body.page > 1 => pg.hasPreviousPage

\* C20 witness: page 3 of a filtered catalog of one page of one game
C20_Witness ==
  /\ Catalogued
  /\ req[1].body.page = 3
  /\ req[1].body.category # <<>>
  /\ resp[1].pagination.totalPages = 1
  /\ resp[1].pagination.totalGames = 1
  /\ resp[1].data = <<>>

\* the answered request asked for a page of the catalog
ListAnswered ==
  /\ pc[1] = "sent"
  /\ req[1].op = "listGames"
  /\ snap.taken

\* C21: for any integer page, zero and negative pages included, and any
\* positive page size, the catalog listing answers with success and with
\* pagination metadata computed from the count of the filter.
C21_NoErrorOnAnyPage ==
  (ListAnswered /\ req[1].body.limit >= 1) =>
    /\ resp[1].status = 200
    /\ resp[1].pagination.currentPage = req[1].body.page
    /\ resp[1].pagination.totalGames = Cardinality(FilterMatches)

\* the games of a page are in the order of lastUpdated, newest first
ByRelevance(d) ==
  \A i \in 1..(Len(d) - 1) : LastUpdated(d[i].id) > LastUpdated(d[i + 1].id)

\* C22: with the sort key rating the page lists the games in non-increasing
\* averageRating and, among equal averageRating, in non-increasing
\* totalReviews; with a sort key the service does not know the page is in
\* the order of the sort key relevance (most recently updated first).
C22_SortOrder ==
  Catalogued =>
    LET d == resp[1].data
    IN /\ req[1].body.sortBy = "rating" =>
            \A i \in 1..(Len(d) - 1) :
              \/ d[i].averageRating > d[i + 1].averageRating
              \/ /\ d[i].averageRating = d[i + 1].averageRating
                 /\ d[i].totalReviews >= d[i + 1].totalReviews
       /\ req[1].body.sortBy \notin {"release-date", "alphabetical", "rating"} =>
            ByRelevance(d)

\* C22 witness: two games of equal averageRating listed by rating, the one
\* with more reviews first although it was stored later
C22_Witness ==
  /\ Catalogued
  /\ req[1].body.sortBy = "rating"
  /\ Len(resp[1].data) = 2
  /\ resp[1].data[1].id > resp[1].data[2].id
  /\ resp[1].data[1].averageRating = resp[1].data[2].averageRating
  /\ resp[1].data[1].totalReviews > resp[1].data[2].totalReviews

\* the routes behind requireAdmin and behind requireSuperAdmin
AdminOps == {"adminCreateGame", "adminEditGame", "adminDeleteGame", "adminDeleteReview"}
SuperAdminOps == {"listUsers", "updateRole"}

\* a role-gated request has been answered
GatedAnswered ==
  /\ pc[1] = "sent"
  /\ snap.taken
  /\ req[1].op \in AdminOps \cup SuperAdminOps

\* the request came with the token of a stored identity
Credentialed == req[1].uid # 0 /\ snap.users[req[1].uid].exists

\* the role stored for the requester when the request arrived was enough
RoleSuffices ==
  IF req[1].op \in AdminOps
  THEN snap.users[req[1].uid].role \in {"admin", "superadmin"}
  ELSE snap.users[req[1].uid].role = "superadmin"

\* the request left the datastore as it found it
NothingChanged ==
  /\ users = snap.users
  /\ games = snap.games
  /\ reviews = snap.reviews
  /\ favorites = snap.favorites

\* C23: a catalog-management or moderation request (create, edit or delete a
\* game, delete any review) is let through only for a requester whose stored
\* role is admin or superadmin, and a user-management request (list users,
\* change a role) only for a superadmin; without a valid credential the
\* answer is 401, with an insufficient role 403, and both change nothing.
C23_RoleGating ==
  GatedAnswered =>
    /\ ~Credentialed => resp[1].status = 401 /\ NothingChanged
    /\ (Credentialed /\ ~RoleSuffices) => resp[1].status = 403 /\ NothingChanged
    /\ (Credentialed /\ RoleSuffices) => resp[1].status \notin {401, 403}

\* C23 witness: the identity created as admin, demoted by an earlier request,
\* is refused a moderation delete of a stored review
C23_Witness ==
  /\ GatedAnswered
  /\ req[1].op = "adminDeleteReview"
  /\ Credentialed
  /\ InitRole(req[1].uid) = "admin"
  /\ snap.users[req[1].uid].role = "user"
  /\ \E r \in reviews : r.id = req[1].rid
  /\ resp[1].status = 403

\* this step sends the response of a review submit, update or delete that
\* has written to the Review collection
RespondsAfterWrite ==
  /\ pc[1] # "sent"
  /\ pc'[1] = "sent"
  /\ req[1].op \in {"submit", "update", "delete"}
  /\ snap.taken
  /\ reviews # snap.reviews

\* the step ends updateGameRating: its write to the game, or its failure
EndsRecompute ==
  \/ /\ pc[1] = "ratingWrite"
     /\ loc[1].gameId \in Games /\ games[loc[1].gameId].exists =>
          /\ games'[loc[1].gameId].averageRating = loc[1].avg
          /\ games'[loc[1].gameId].totalReviews = loc[1].total
  \/ /\ pc[1] \in {"ratingRead", "ratingWrite"}
     /\ loc'[1].caught # <<>>

\* C24: in every review submit, update and delete the response is sent by
\* the step that finishes the rating recompute of the affected game, or by
\* its failure; no response is sent while the recompute is still to run or
\* under way.
C24_RecomputeBeforeResponse == [][RespondsAfterWrite => EndsRecompute]_vars

\* C24 witness: an answered owner delete whose recompute has rewritten the
\* aggregate of the game
C24_Witness ==
  /\ Answered("delete")
  /\ resp[1].status = 200
  /\ reviews # snap.reviews
  /\ games # snap.games

\* C25: no two stored identities have usernames that are equal when letter
\* case is ignored, after any sequence of profile and username updates.
C25_HandlesUniqueIgnoringCase ==
  \A u, v \in DOMAIN users :
    (/\ u # v
     /\ users[u].exists /\ users[v].exists
     /\ users[u].username # NoUsername /\ users[v].username # NoUsername)
    => ToLowerCase(users[u].username) # ToLowerCase(users[v].username)

\* C26: an admin edit of a game leaves the averageRating and the
\* totalReviews of every game as they were, whatever the request body names.
C26_EditKeepsAggregate ==
  (GatedAnswered /\ req[1].op = "adminEditGame") =>
    \A g \in Games :
      /\ games[g].averageRating = snap.games[g].averageRating
      /\ games[g].totalReviews = snap.games[g].totalReviews

\* C27: whatever role updates are requested, one after the other or
\* overlapping, at least one stored identity has the role superadmin.
C27_SuperadminRemains ==
  \E u \in DOMAIN users : users[u].exists /\ users[u].role = "superadmin"

\* the find of a listing of page 1 or later with a page size of 1 or more
\* has run, its count has not
PageFetched ==
  /\ pc[1] = "lgCount"
  /\ req[1].op = "listGames"
  /\ req[1].body.page >= 1
  /\ req[1].body.limit >= 1

\* the page size the response reports in gamesPerPage
GamesPerPage == IF req[1].body.limit < MaxLimit THEN req[1].body.limit ELSE MaxLimit

\* the number of games at the positions (N - 1) * size + 1 .. N * size of a
\* result of n games
OnPage(n, page, size) ==
  IF n <= (page - 1) * size THEN 0
  ELSE IF n >= page * size THEN size
  ELSE n - (page - 1) * size

\* C28: for every page size of 1 or more, sizes above the maximum included,
\* page N of the catalog starts at the offset (N - 1) times the page size
\* reported in gamesPerPage and holds the matching games at the positions
\* from there on, so that the pages 1..totalPages hold every matching game
\* exactly once.
C28_PagesPartitionCatalog ==
  PageFetched =>
    /\ loc[1].skip = (req[1].body.page - 1) * GamesPerPage
    /\ Len(loc[1].todo) =
         OnPage(Cardinality(MatchingGames(req[1].body.category)), req[1].body.page,
                GamesPerPage)

\* the calls before call i that were allowed for the same user inside the
\* window that ends with call i
AllowedInWindow(i) ==
  {j \in 1..(i - 1) :
     /\ limiter.calls[j].userId = limiter.calls[i].userId
     /\ limiter.calls[j].allowed
     /\ limiter.calls[j].at > limiter.calls[i].at - limiter.windowMs}

\* C29: with a clock that never runs backwards, a call of checkUserRateLimit
\* is refused exactly when maxRequests earlier calls of the same user were
\* allowed within the last windowMs; refused calls and the calls of other
\* users do not count, so no user is allowed more than maxRequests calls
\* inside a window of windowMs.
C29_RateLimitWindow ==
  \A i \in 1..Len(limiter.calls) :
    limiter.calls[i].allowed <=> Cardinality(AllowedInWindow(i)) < limiter.maxRequests

\* the record of game g is the aggregate of its stored reviews, rounded to
\* one or to two decimals
AggregateOfRemaining(g) ==
  LET S == StoredFor(reviews, g)
      n == Cardinality(S)
  IN /\ games[g].totalReviews = n
     /\ IF n = 0 THEN games[g].averageRating = 0
        ELSE \/ IsRoundedMean(games[g].averageRating, RatingSum(S), n, 1)
             \/ IsRoundedMean(games[g].averageRating, RatingSum(S), n, 10)

\* C30: when the account deletion of the identity that had reviewed game 1
\* overlaps other requests (a submit of another identity on that game, or a
\* submit or add-favorite of the identity itself, authenticated before the
\* deletion), then once every request has completed no review and no
\* favorite of the identity is stored and the aggregate of game 1 is the
\* aggregate of its remaining reviews.
C30_DeletionLeavesNothing ==
  (Settled /\ ~users[NumUsers].exists) =>
    /\ \A r \in reviews : r.userId # NumUsers
    /\ \A f \in favorites : f.userId # NumUsers
    /\ AggregateOfRemaining(1)

====
